---- MODULE Spec2Model ----
(***************************************************************************)
(* A model of the web-scout scraping agent (package iwsa).                 *)
(*                                                                         *)
(* Part 1: utils/helpers.py  - CircuitBreaker, RateLimiter,                *)
(*                             retry_with_backoff                          *)
(* Part 2: llm/providers.py  - the providers' generate_response            *)
(* Part 3: llm/strategy_generator.py - LLMStrategyGenerator                *)
(* Part 4: scraper/browser_manager.py - BrowserManager                     *)
(* Part 5: scraper/session_manager.py - SessionManager                     *)
(* Part 6: scraper/dynamic_scraper.py - scrape_site, browser and session   *)
(* Part 7: core/engine.py    - ScrapingEngine                              *)
(* Part 8: scraper/dynamic_scraper.py - ExtractionResult, scrape_site body *)
(* Part 9: data/processors.py, data/pipeline.py - processors, DataPipeline *)
(* Part 10: core/engine.py - _determine_scraping_profile;                  *)
(*          scraper/anti_detection.py - apply_rate_limiting                *)
(*                                                                         *)
(* Time is an integer clock `now`; one unit stands for ClockUnit seconds.  *)
(* Confidence scores are integers in hundredths (0.85 is 85).              *)
(***************************************************************************)
EXTENDS Integers, Sequences, FiniteSets, TLC

VARIABLES
    now,               \* time.time(), in clock units
    \* ---- one CircuitBreaker used on its own (helpers.py) ----
    cb,                \* the breaker object
    cbLog,             \* history of its calls: what the last call did, counters
    \* ---- one RateLimiter shared by concurrent acquire() callers ----
    rl,                \* the limiter object: min_interval, last_call
    rlPc,              \* per caller: "idle", "sleeping"
    rlWake,            \* per caller: the time its asyncio.sleep ends
    rlDone,            \* the times at which acquire() calls completed
    \* ---- LLMStrategyGenerator ----
    is_available,      \* per backend: provider.is_available at construction
    providers,         \* self.providers (its keys)
    provider_priority, \* self.provider_priority
    circuit_breakers,  \* self.circuit_breakers
    pc,                \* generate_scraping_strategy: "idle", "loop", "await", "done"
    idx,               \* position of the for loop in provider_priority
    inflight,          \* backends whose generate_response coroutine is running
    attempts,          \* attempts made by the running generate_response (tenacity)
    tried,             \* this call: <<[provider, response, attempts, transient]>>
    turns,             \* this call: per loop turn, the breaker as it was met
    result,            \* the ScrapingStrategy returned by the last call
    \* ---- BrowserManager (scraper/browser_manager.py) ----
    browser_pool,      \* self.browser_pool: the ids it holds, in insertion order
    instance,          \* the BrowserInstance objects, by id
    bPc,               \* per task: where it stands in get/release_instance
    bHeld,             \* per task: the instance it was returned and has not released
    bVictim,           \* per task: the instance whose cleanup() it awaits
    bTodo,             \* per task: rest of to_cleanup in _cleanup_old_instances
    bWait,             \* per task: iterations of the wait loop completed
    bForce,            \* per task: the force_new argument of the running call
    bLog,              \* per task: what its last get_browser_instance call did
    \* ---- SessionManager (scraper/session_manager.py) ----
    sessions,          \* self.sessions: the SessionState objects, in insertion order
    rotated,           \* the rotate_session call that has just returned, if any
    restored,          \* the restore_session_state call that has just returned
    \* ---- DynamicScraper.scrape_site (scraper/dynamic_scraper.py) ----
    sPc,               \* per task: where its scrape_site call stands
    sSession,          \* per task: the session its call created (session)
    sExit,             \* per task: how its last call ended, what it had acquired
    \* ---- ScrapingEngine (core/engine.py) ----
    active_requests,   \* self.active_requests (its keys)
    ePc,               \* per request: where its process_request call stands
    eUrls,             \* per request: target URLs still to analyse
    eResponse,         \* per request: the ScrapingResponse returned
    eCancelled,        \* per request: cancel_request returned True during the run
    eAfterCancel,      \* per request: the run went on after that
    \* ---- one ExtractionResult used on its own (dynamic_scraper.py) ----
    er,                \* the result object
    erAdded,           \* every error handed to add_error, in order
    \* ---- the body of one scrape_site call (dynamic_scraper.py) ----
    xPc,               \* where the call stands
    xSite,             \* site_metadata: filters, pagination
    xResult,           \* `result` of scrape_site
    xLocals,           \* its locals: browser_instance, and those of _extract_with_pagination
    xLog,              \* what the call did: pages attempted, recovery calls, ...
    \* ---- DataPipeline.process_and_export (data/pipeline.py) ----
    plPc,              \* where the call stands
    plFormats,         \* export_formats
    plData,            \* processed_data; at the start, the rows passed in
    plTrace,           \* the stages run in this call: rows in, rows out, statistics
    plFirst,           \* the output of the call before, when it is this call's input
    plResult,          \* the PipelineResult
    \* ---- the ScrapingRequest objects built by process_request ----
    scraping_request,  \* per request: its intent and scraping_profile
    \* ---- AntiDetectionManager (scraper/anti_detection.py) ----
    domain_rate_limiters, \* self.domain_rate_limiters, by domain
    request_history,   \* self.request_history, by domain
    arLog              \* the last apply_rate_limiting call: its run's profile

cbVars  == <<cb, cbLog>>
rlVars  == <<rl, rlPc, rlWake, rlDone>>
genVars == <<is_available, providers, provider_priority, circuit_breakers,
             pc, idx, inflight, attempts, tried, turns, result>>
bmVars  == <<browser_pool, instance, bPc, bHeld, bVictim, bTodo, bWait,
             bForce, bLog>>
smVars  == <<sessions, rotated, restored>>
scVars  == <<sPc, sSession, sExit>>
enVars  == <<active_requests, ePc, eUrls, eResponse, eCancelled, eAfterCancel>>
scraperVars == <<bmVars, smVars, scVars, enVars>>
exVars  == <<er, erAdded, xPc, xSite, xResult, xLocals, xLog>>
plVars  == <<plPc, plFormats, plData, plTrace, plFirst, plResult>>
prVars  == <<scraping_request>>
adVars  == <<domain_rate_limiters, request_history, arLog>>
dataVars == <<exVars, plVars, prVars, adVars>>
otherVars == <<cbVars, rlVars, genVars>>
vars    == <<now, cbVars, rlVars, genVars, scraperVars, dataVars>>

(***************************************************************************)
(* Bounds of the model                                                     *)
(***************************************************************************)
MaxTime == 6
MaxDuration == 1
MaxFailureCount == 4
MaxCalls == 5
FailureThresholdN == 2
RecoveryTimeoutT == 2
ClockUnit == 150
StartTime == 3
MinIntervalTicks == 2
NumCallers == 2
MaxAcquires == 3
MaxLibProviders == 2

None == -1

(***************************************************************************)
(* Part 1a. CircuitBreaker (utils/helpers.py)                              *)
(***************************************************************************)
\* CircuitBreaker.__init__
CircuitBreaker(failure_threshold, recovery_timeout) ==
    [failure_threshold |-> failure_threshold,
     recovery_timeout  |-> recovery_timeout,
     failure_count     |-> 0,
     last_failure_time |-> None,
     state             |-> "CLOSED"]

\* CircuitBreaker._on_success
_on_success(b) ==
    [b EXCEPT !.failure_count = 0, !.state = "CLOSED"]

\* CircuitBreaker._on_failure, called at time t
_on_failure(b, t) ==
    LET n == b.failure_count + 1
    IN [b EXCEPT !.failure_count = n,
                 !.last_failure_time = t,
                 !.state = IF n >= b.failure_threshold THEN "OPEN" ELSE @]

\* RecoveryElapsed with the timeout left out of the comparison.
RecoveryElapsed_NoTimeout(b, t) ==
    t - b.last_failure_time > 0

\* The test of an OPEN breaker at the head of call: may the call go through?
RecoveryElapsed(b, t) ==
    t - b.last_failure_time > b.recovery_timeout

\* What the wrapped function does when it is run.
\*   "ok"        it returns
\*   "tracked"   it raises an instance of expected_exception
\*   "untracked" it raises something else
FuncOutcomes == {"ok", "tracked", "untracked"}

\* CircuitBreaker.call at time t, the wrapped function taking d units of time.
\* Gives the breaker afterwards, whether func was invoked, and how call ended.
CBCall(b, t, outcome, d) ==
    IF b.state = "OPEN" /\ ~RecoveryElapsed(b, t)
    THEN [breaker |-> b, invoked |-> FALSE, ended |-> "open_error"]
    ELSE LET b1 == IF b.state = "OPEN" THEN [b EXCEPT !.state = "HALF_OPEN"] ELSE b
         IN CASE outcome = "ok" ->
                    [breaker |-> _on_success(b1), invoked |-> TRUE, ended |-> "ok"]
              [] outcome = "tracked" ->
                    [breaker |-> _on_failure(b1, t + d), invoked |-> TRUE,
                     ended |-> "tracked"]
              [] OTHER ->
                    [breaker |-> b1, invoked |-> TRUE, ended |-> "untracked"]

\* The history kept of the stand-alone breaker's calls: how the last call
\* ended and whether it ran func, the breaker's state and the time since its
\* last failure when that call was made, the run of tracked failures so far.
CbLogInit ==
    [last |-> "none", invoked |-> FALSE, consecutive |-> 0, calls |-> 0,
     stateBefore |-> "CLOSED", sinceFailure |-> None]

Since(b, t) == IF b.last_failure_time = None THEN None ELSE t - b.last_failure_time

\* A caller runs cb.call(func) on the stand-alone breaker.
Call(outcome, d) ==
    /\ now + d <= MaxTime
    /\ cbLog.calls < MaxCalls
    /\ cb.failure_count < MaxFailureCount
    /\ LET r == CBCall(cb, now, outcome, d)
       IN /\ cb' = r.breaker
          /\ cbLog' = [last |-> r.ended,
                       invoked |-> r.invoked,
                       consecutive |->
                           CASE r.ended = "tracked" -> cbLog.consecutive + 1
                             [] r.ended = "open_error" -> cbLog.consecutive
                             [] OTHER -> 0,
                       calls |-> cbLog.calls + 1,
                       stateBefore |-> cb.state,
                       sinceFailure |-> Since(cb, now)]
    /\ now' = IF CBCall(cb, now, outcome, d).invoked THEN now + d ELSE now
    /\ UNCHANGED <<rlVars, genVars, scraperVars, dataVars>>

\* Time passes.
Tick ==
    /\ now < MaxTime
    /\ now' = now + 1
    /\ UNCHANGED <<cbVars, rlVars, genVars, scraperVars, dataVars>>


(***************************************************************************)
(* Part 1b. RateLimiter (utils/helpers.py)                                 *)
(***************************************************************************)
Callers == 1..NumCallers

\* RateLimiter.__init__: min_interval = 1.0 / calls_per_second, last_call = 0.0
RateLimiter(min_interval) ==
    [min_interval |-> min_interval, last_call |-> 0]

\* acquire(), up to its await: reads the clock and decides whether to sleep.
AcquireBegin(c) ==
    /\ rlPc[c] = "idle"
    /\ Len(rlDone) + Cardinality({d \in Callers : rlPc[d] = "sleeping"}) < MaxAcquires
    /\ LET time_since_last == now - rl.last_call
       IN IF time_since_last < rl.min_interval
          THEN /\ rlPc' = [rlPc EXCEPT ![c] = "sleeping"]
               /\ rlWake' = [rlWake EXCEPT ![c] = now + (rl.min_interval - time_since_last)]
               /\ UNCHANGED <<rl, rlDone>>
          ELSE /\ rl' = [rl EXCEPT !.last_call = now]
               /\ rlDone' = Append(rlDone, now)
               /\ UNCHANGED <<rlPc, rlWake>>
    /\ UNCHANGED <<now, cbVars, genVars, scraperVars, dataVars>>

\* acquire(), after asyncio.sleep(wait_time) returned: records the call.
AcquireResume(c) ==
    /\ rlPc[c] = "sleeping"
    /\ now >= rlWake[c]
    /\ rl' = [rl EXCEPT !.last_call = now]
    /\ rlDone' = Append(rlDone, now)
    /\ rlPc' = [rlPc EXCEPT ![c] = "idle"]
    /\ rlWake' = [rlWake EXCEPT ![c] = None]
    /\ UNCHANGED <<now, cbVars, genVars, scraperVars, dataVars>>

(***************************************************************************)
(* Part 1c. retry_with_backoff (utils/helpers.py)                          *)
(***************************************************************************)
max_attempts == 3

\* The exceptions the providers hand to retry_with_backoff.
retry_exceptions == {"ClientError", "TimeoutError"}

\* tenacity: run the function again iff it raised one of retry_exceptions
\* and fewer than max_attempts attempts were made.
ShouldRetry(decorated, raised, attempt) ==
    decorated /\ raised \in retry_exceptions /\ attempt < max_attempts

(***************************************************************************)
(* Part 2. The providers (llm/providers.py)                                *)
(***************************************************************************)
Backends == {"tinyllama", "openai", "claude", "huggingface"}

\* generate_response carries @retry_with_backoff on the three HTTP providers.
Decorated(p) == p # "tinyllama"

\* What one run of a provider's request meets.
\*   "status_200"   the endpoint (or the local model) answers with content
\*   "status_500"   a server error status
\*   "status_400"   a client error status
\*   "ClientError"  aiohttp raises a network error
\*   "TimeoutError" the request times out
\*   "inference"    local inference raises
Encounters(p) ==
    IF p = "tinyllama" THEN {"status_200", "inference"}
    ELSE {"status_200", "status_500", "status_400", "ClientError", "TimeoutError"}

Transient == {"status_500", "ClientError", "TimeoutError"}

RequiredFields == {"selectors", "extraction_logic", "confidence_score"}

\* The texts a backend may answer with, by what the parser can see in them:
\* json is "none" (no braces), "malformed" (braces, not JSON) or "object".
Content(json, fields, selectors, confidence) ==
    [json |-> json, fields |-> fields, selectors |-> selectors,
     confidence_score |-> confidence]

NoContent == Content("none", {}, <<>>, 0)

Contents ==
    { NoContent,
      Content("malformed", {}, <<>>, 0),
      Content("object", RequiredFields, <<"div.item">>, 85),
      Content("object", RequiredFields, <<>>, 85),
      Content("object", RequiredFields, <<"div.item">>, 150),
      Content("object", RequiredFields, <<"div.item">>, 0 - 10),
      Content("object", RequiredFields \ {"selectors"}, <<>>, 85),
      Content("object", RequiredFields \ {"extraction_logic"}, <<"div.item">>, 85),
      Content("object", RequiredFields \ {"confidence_score"}, <<"div.item">>, 0) }

LLMResponse(success, content) ==
    [raised |-> "none", success |-> success, content |-> content]

\* One run of the body of generate_response of backend p. Every exception
\* raised inside the request is caught by the body's own `except Exception`
\* and turned into a response with success = False.
generate_response(p, available, met, content) ==
    IF ~available
    THEN LLMResponse(FALSE, NoContent)
    ELSE IF met = "status_200"
         THEN LLMResponse(TRUE, content)
         ELSE LLMResponse(FALSE, NoContent)


(***************************************************************************)
(* Part 3. LLMStrategyGenerator (llm/strategy_generator.py)                *)
(***************************************************************************)
GenFailureThreshold == 3
GenRecoveryTimeoutSeconds == 300

\* ScrapingStrategy, with the fields the properties read.
ScrapingStrategy(success, selectors, confidence, reasoning, provider_used) ==
    [success |-> success, selectors |-> selectors, confidence_score |-> confidence,
     reasoning |-> reasoning, provider_used |-> provider_used]

NoStrategy == ScrapingStrategy(FALSE, <<>>, 0, "", "")

\* InitializeProviders with the availability tests left out.
InitializeProviders_All(avail) ==
    {"tinyllama", "openai", "claude", "huggingface"}

\* _initialize_providers: the first three are registered when available,
\* huggingface is registered without a test.
InitializeProviders(avail) ==
    {p \in {"tinyllama", "openai", "claude"} : avail[p]} \cup {"huggingface"}

\* _get_provider_priority
cloud_order == <<"openai", "claude", "huggingface">>

\* GetProviderPriority with the local provider put last.
GetProviderPriority_CloudFirst(provs) ==
    SelectSeq(cloud_order, LAMBDA p : p \in provs)
        \o (IF "tinyllama" \in provs THEN <<"tinyllama">> ELSE <<>>)

GetProviderPriority(provs) ==
    (IF "tinyllama" \in provs THEN <<"tinyllama">> ELSE <<>>)
        \o SelectSeq(cloud_order, LAMBDA p : p \in provs)

\* ParseStrategyResponse with the required-field validation left out.
ParseStrategyResponse_NoValidation(content, provider_name) ==
    IF content.json = "none"
    THEN ScrapingStrategy(FALSE, <<>>, 0, "No JSON found in response", "")
    ELSE IF content.json = "malformed"
    THEN ScrapingStrategy(FALSE, <<>>, 0, "JSON parsing error", "")
    ELSE ScrapingStrategy(TRUE, content.selectors, content.confidence_score,
                          "", provider_name)

\* _parse_strategy_response
ParseStrategyResponse(content, provider_name) ==
    IF content.json = "none"
    THEN ScrapingStrategy(FALSE, <<>>, 0, "No JSON found in response", "")
    ELSE IF content.json = "malformed"
    THEN ScrapingStrategy(FALSE, <<>>, 0, "JSON parsing error", "")
    ELSE IF ~(RequiredFields \subseteq content.fields)
    THEN ScrapingStrategy(FALSE, <<>>, 0, "Missing required field", "")
    ELSE ScrapingStrategy(TRUE, content.selectors, content.confidence_score,
                          "", provider_name)

\* The strategy returned when the loop runs out of providers.
AllFailed ==
    ScrapingStrategy(FALSE, <<>>, 0, "All LLM providers failed to generate strategy", "")

\* The loop's test of the breaker before it calls the provider.
BreakerOpen(b) == b.state = "OPEN"

\* circuit_breaker.call(provider.generate_response, request): call runs the
\* function, which is a coroutine function and so returns a coroutine object
\* without running its body; call takes that return for a success. The body
\* runs afterwards, at the await, outside the breaker.
GuardedCall(b, t) == CBCall(b, t, "ok", 0)

\* ProviderTurn calling the provider without consulting the breaker.
ProviderTurn_Unguarded(b, t) ==
    [invoked |-> TRUE, breaker |-> b]

\* What one turn of the loop does with its provider's breaker b at time t:
\* pass the provider over, or make the guarded call.
ProviderTurn(b, t) ==
    IF BreakerOpen(b)
    THEN [invoked |-> FALSE, breaker |-> b]
    ELSE LET r == GuardedCall(b, t)
         IN [invoked |-> r.invoked, breaker |-> r.breaker]

\* generate_scraping_strategy is entered.
GenerateStart ==
    /\ pc = "idle"
    /\ pc' = "loop"
    /\ idx' = 1
    /\ tried' = <<>>
    /\ turns' = <<>>
    /\ result' = NoStrategy
    /\ UNCHANGED <<scraperVars, dataVars, now, cbVars, rlVars, is_available, providers, provider_priority,
                   circuit_breakers, inflight, attempts>>

\* One turn of the for loop, up to the await (or the return after the loop).
LoopStep ==
    /\ pc = "loop"
    /\ IF idx > Len(provider_priority)
       THEN /\ result' = AllFailed
            /\ pc' = "done"
            /\ UNCHANGED <<idx, circuit_breakers, inflight, attempts, turns>>
       ELSE LET p == provider_priority[idx]
                b == circuit_breakers[p]
                r == ProviderTurn(b, now)
            IN /\ circuit_breakers' = [circuit_breakers EXCEPT ![p] = r.breaker]
               /\ turns' = Append(turns,
                     [provider |-> p, state |-> b.state, since |-> Since(b, now),
                      invoked |-> r.invoked])
               /\ IF r.invoked
                  THEN /\ inflight' = inflight \cup {p}
                       /\ attempts' = 0
                       /\ pc' = "await"
                       /\ UNCHANGED idx
                  ELSE /\ idx' = idx + 1
                       /\ UNCHANGED <<pc, inflight, attempts>>
               /\ UNCHANGED result
    /\ UNCHANGED <<scraperVars, dataVars, now, cbVars, rlVars, is_available, providers, provider_priority, tried>>

\* The awaited generate_response of backend p runs once more and meets `met`;
\* tenacity runs it again or lets the result through to the loop body.
GenAttempt(p, met, content) ==
    /\ pc = "await"
    /\ p \in inflight
    /\ met \in Encounters(p)
    /\ met # "status_200" => content = NoContent
    /\ LET response == generate_response(p, is_available[p], met, content)
           n == attempts + 1
       IN IF ShouldRetry(Decorated(p), response.raised, n)
          THEN /\ attempts' = n
               /\ UNCHANGED <<pc, idx, inflight, tried, result>>
          ELSE LET strategy == ParseStrategyResponse(response.content, p)
                   returned == response.raised = "none" /\ response.success
                                  /\ strategy.success
               IN /\ attempts' = 0
                  /\ inflight' = inflight \ {p}
                  /\ tried' = Append(tried,
                        [provider |-> p,
                         success |-> (response.raised = "none" /\ response.success),
                         complete |-> (RequiredFields \subseteq response.content.fields
                                          /\ response.content.json = "object"),
                         attempts |-> n,
                         transient |-> (met \in Transient)])
                  /\ IF returned
                     THEN /\ result' = strategy
                          /\ pc' = "done"
                          /\ UNCHANGED idx
                     ELSE /\ idx' = idx + 1
                          /\ pc' = "loop"
                          /\ UNCHANGED result
    /\ UNCHANGED <<scraperVars, dataVars, now, cbVars, rlVars, is_available, providers, provider_priority,
                   circuit_breakers, turns>>

\* The caller has the strategy; the generator is ready for the next call.
GenerateReturn ==
    /\ pc = "done"
    /\ pc' = "idle"
    /\ idx' = 1
    /\ tried' = <<>>
    /\ turns' = <<>>
    /\ result' = NoStrategy
    /\ UNCHANGED <<scraperVars, dataVars, now, cbVars, rlVars, is_available, providers, provider_priority,
                   circuit_breakers, inflight, attempts>>

\* Between two strategy calls some other caller runs
\* circuit_breakers[p].call(func) with a plain function, as in Part 1a.
BreakerCall(p, outcome) ==
    /\ pc = "idle"
    /\ p \in providers
    /\ circuit_breakers[p].failure_count < MaxFailureCount
    /\ circuit_breakers' =
          [circuit_breakers EXCEPT ![p] = CBCall(@, now, outcome, 0).breaker]
    /\ UNCHANGED <<scraperVars, dataVars, now, cbVars, rlVars, is_available, providers, provider_priority,
                   pc, idx, inflight, attempts, tried, turns, result>>

(***************************************************************************)
(* Part 4. BrowserManager (scraper/browser_manager.py)                     *)
(*                                                                         *)
(* Tasks are asyncio tasks: they interleave only at an await.  An action   *)
(* is the code a task runs from one suspension to the next.                *)
(* MaxRequestsPerInstance stands for max_requests_per_instance (100),      *)
(* MaxInstanceAge for max_instance_age (3600 s), WaitIterations for the    *)
(* 30 one-second sleeps, MaxInstances for max_concurrent_browsers.         *)
(***************************************************************************)
MaxInstances == 1
MaxRequestsPerInstance == 2
MaxInstanceAge == 2
WaitIterations == 1
MaxIds == 3

Tasks == {"t1", "t2"}
InstanceIds == 1..MaxIds

BrowserInstance(t, used) ==
    [in_use |-> used, requests_count |-> 0, created_at |-> t, last_used |-> t]

NoInstance == [in_use |-> FALSE, requests_count |-> 0, created_at |-> 0, last_used |-> 0]

GetLog(kind, waited, evicted) ==
    [kind |-> kind, waited |-> waited, evicted |-> evicted]

InPool(id, pool) == \E i \in 1..Len(pool) : pool[i] = id

PoolWithout(pool, id) == SelectSeq(pool, LAMBDA x : x # id)

\* the test that ignores in_use
Available_IgnoreInUse(i, t) ==
    /\ i.requests_count < MaxRequestsPerInstance
    /\ t - i.created_at < MaxInstanceAge

\* the test that ignores the two limits
Available_IgnoreLimits(i, t) ==
    ~i.in_use

\* the instance passes the three tests of _find_available_instance
Available(i, t) ==
    /\ ~i.in_use
    /\ i.requests_count < MaxRequestsPerInstance
    /\ t - i.created_at < MaxInstanceAge

\* first instance of the pool, in dict order, that is available; None if none
_find_available_instance(pool, inst, t) ==
    LET ok == {i \in 1..Len(pool) : Available(inst[pool[i]], t)}
    IN  IF ok = {} THEN None
        ELSE pool[CHOOSE i \in ok : \A j \in ok : i <= j]

\* to_cleanup of _cleanup_old_instances, in dict order
ToCleanup(pool, inst, t) ==
    SelectSeq(pool, LAMBDA id :
        /\ ~inst[id].in_use
        /\ \/ t - inst[id].created_at > MaxInstanceAge
           \/ inst[id].requests_count >= MaxRequestsPerInstance)

\* the least recently used instance, in use or not
LruInstance_AnyInstance(pool, inst) ==
    IF pool = <<>> THEN None
    ELSE pool[CHOOSE i \in 1..Len(pool) : \A j \in 1..Len(pool) :
                \/ inst[pool[i]].last_used < inst[pool[j]].last_used
                \/ /\ inst[pool[i]].last_used = inst[pool[j]].last_used
                   /\ i <= j]

\* lru_instance of _cleanup_lru_instance: idle, smallest last_used, the first
\* such in dict order (the comparison is strict); None if every one is in use
LruInstance(pool, inst) ==
    LET idle == {i \in 1..Len(pool) : ~inst[pool[i]].in_use}
    IN  IF idle = {} THEN None
        ELSE pool[CHOOSE i \in idle : \A j \in idle :
                    \/ inst[pool[i]].last_used < inst[pool[j]].last_used
                    \/ /\ inst[pool[i]].last_used = inst[pool[j]].last_used
                       /\ i <= j]

\* the ids of todo that are still in the pool: _cleanup_instance returns at
\* once, without suspending, for the others
StillPooled(todo, pool) == SelectSeq(todo, LAMBDA id : InPool(id, pool))

\* the ids no object and no task refers to; generate_id("browser") returns an
\* id that is in use nowhere
FreeIds ==
    {i \in InstanceIds :
        /\ ~InPool(i, browser_pool)
        /\ \A t \in Tasks :
              /\ bHeld[t] # i
              /\ bVictim[t] # i
              /\ \A k \in 1..Len(bTodo[t]) : bTodo[t][k] # i}

generate_id == CHOOSE i \in FreeIds : \A j \in FreeIds : i <= j

\* the objects that the pool or a holder still refers to; the others are gone
Live(inst, pool, held) ==
    [i \in InstanceIds |->
        IF InPool(i, pool) \/ \E t \in Tasks : held[t] = i THEN inst[i] ELSE NoInstance]

\* task t moves on inside its call
Goto(t, p, victim, todo, wait, force, log) ==
    /\ bPc' = [bPc EXCEPT ![t] = p]
    /\ bVictim' = [bVictim EXCEPT ![t] = victim]
    /\ bTodo' = [bTodo EXCEPT ![t] = todo]
    /\ bWait' = [bWait EXCEPT ![t] = wait]
    /\ bForce' = [bForce EXCEPT ![t] = force]
    /\ bLog' = [bLog EXCEPT ![t] = log]

\* the call of task t ends without handing out an instance: an exception
\* leaves get_browser_instance or release_instance, or release_instance returns
EndCall(t, log) == Goto(t, "idle", None, <<>>, 0, FALSE, log)

Raised(t) == EndCall(t, [bLog[t] EXCEPT !.kind = "raised"])

\* get_browser_instance returns instance id to task t
ReturnInstance(t, id, log) ==
    /\ bHeld' = [bHeld EXCEPT ![t] = id]
    /\ Goto(t, "holding", None, <<>>, 0, FALSE, log)

\* get_browser_instance, lines 170-187, on the pool p that
\* _cleanup_old_instances left: reuse, create, or start to wait
FindOrCreate(t, p, force) ==
    LET found == IF force THEN None ELSE _find_available_instance(p, instance, now)
    IN  /\ browser_pool' = p
        /\ IF found # None
           THEN /\ instance' = Live([instance EXCEPT ![found].in_use = TRUE,
                                                     ![found].last_used = now],
                                    p, bHeld)
                /\ ReturnInstance(t, found, GetLog("reused", FALSE, FALSE))
           ELSE /\ instance' = Live(instance, p, bHeld)
                /\ UNCHANGED bHeld
                /\ IF Len(p) < MaxInstances
                   THEN Goto(t, "launch", None, <<>>, 0, FALSE,
                             GetLog("pending", FALSE, FALSE))
                   ELSE Goto(t, "sleep", None, <<>>, 0, FALSE,
                             GetLog("pending", FALSE, FALSE))

\* get_browser_instance up to its first suspension
get_browser_instance(t, force_new) ==
    /\ bPc[t] = "idle"
    /\ LET todo == ToCleanup(browser_pool, instance, now)
       IN  IF todo # <<>>
           THEN /\ Goto(t, "old_cleanup", Head(todo), Tail(todo), 0, force_new,
                        GetLog("pending", FALSE, FALSE))
                /\ UNCHANGED <<browser_pool, instance, bHeld>>
           ELSE FindOrCreate(t, browser_pool, force_new)

\* _cleanup_old_instances: instance.cleanup() of the victim has finished
cleanup_old_step(t) ==
    /\ bPc[t] = "old_cleanup"
    /\ IF ~InPool(bVictim[t], browser_pool)
       THEN \* del self.browser_pool[instance_id] raises KeyError
            /\ Raised(t)
            /\ UNCHANGED <<browser_pool, instance, bHeld>>
       ELSE LET p == PoolWithout(browser_pool, bVictim[t])
                rest == StillPooled(bTodo[t], p)
            IN  IF rest # <<>>
                THEN /\ browser_pool' = p
                     /\ instance' = Live(instance, p, bHeld)
                     /\ Goto(t, "old_cleanup", Head(rest), Tail(rest), 0, bForce[t],
                             bLog[t])
                     /\ UNCHANGED bHeld
                ELSE FindOrCreate(t, p, bForce[t])

\* _create_new_instance: the launch has finished (ok) or raised
create_new_instance_done(t, ok) ==
    /\ bPc[t] = "launch"
    /\ IF ok
       THEN /\ FreeIds # {}
            /\ browser_pool' = Append(browser_pool, generate_id)
            /\ instance' = [instance EXCEPT ![generate_id] = BrowserInstance(now, TRUE)]
            /\ ReturnInstance(t, generate_id, [bLog[t] EXCEPT !.kind = "created"])
       ELSE /\ Raised(t)
            /\ UNCHANGED <<browser_pool, instance, bHeld>>

\* one asyncio.sleep(1) of the wait loop has finished; after the last one,
\* _cleanup_lru_instance and _create_new_instance follow
wait_step(t) ==
    /\ bPc[t] = "sleep"
    /\ LET found == _find_available_instance(browser_pool, instance, now)
           lru == LruInstance(browser_pool, instance)
       IN  /\ UNCHANGED browser_pool
           /\ IF found # None
              THEN /\ instance' = [instance EXCEPT ![found].in_use = TRUE,
                                                   ![found].last_used = now]
                   /\ ReturnInstance(t, found, [bLog[t] EXCEPT !.kind = "reused"])
              ELSE /\ UNCHANGED <<instance, bHeld>>
                   /\ IF bWait[t] + 1 < WaitIterations
                      THEN Goto(t, "sleep", None, <<>>, bWait[t] + 1, FALSE, bLog[t])
                      ELSE IF lru # None
                      THEN Goto(t, "lru_cleanup", lru, <<>>, 0, FALSE,
                                [bLog[t] EXCEPT !.waited = TRUE])
                      ELSE Goto(t, "launch", None, <<>>, 0, FALSE,
                                [bLog[t] EXCEPT !.waited = TRUE])

\* _cleanup_lru_instance: instance.cleanup() of the victim has finished
cleanup_lru_step(t) ==
    /\ bPc[t] = "lru_cleanup"
    /\ UNCHANGED bHeld
    /\ IF ~InPool(bVictim[t], browser_pool)
       THEN Raised(t) /\ UNCHANGED <<browser_pool, instance>>
       ELSE /\ browser_pool' = PoolWithout(browser_pool, bVictim[t])
            /\ instance' = Live(instance, PoolWithout(browser_pool, bVictim[t]), bHeld)
            /\ Goto(t, "launch", None, <<>>, 0, FALSE,
                    [bLog[t] EXCEPT !.evicted = TRUE])

\* a release_instance that leaves the instance as it was
release_instance_Keep(t) ==
    /\ bPc[t] = "holding"
    /\ bHeld' = [bHeld EXCEPT ![t] = None]
    /\ UNCHANGED <<browser_pool, instance>>
    /\ EndCall(t, bLog[t])

\* release_instance up to its first suspension
release_instance(t) ==
    /\ bPc[t] = "holding"
    /\ bHeld' = [bHeld EXCEPT ![t] = None]
    /\ UNCHANGED browser_pool
    /\ LET id == bHeld[t]
           released == [instance[id] EXCEPT !.in_use = FALSE, !.last_used = now,
                                           !.requests_count = @ + 1]
       IN  IF InPool(id, browser_pool)
           THEN /\ instance' = [instance EXCEPT ![id] = released]
                /\ IF \/ released.requests_count >= MaxRequestsPerInstance
                      \/ now - released.created_at >= MaxInstanceAge
                   THEN Goto(t, "release_cleanup", id, <<>>, 0, FALSE, bLog[t])
                   ELSE EndCall(t, bLog[t])
           ELSE /\ instance' = Live(instance, browser_pool, [bHeld EXCEPT ![t] = None])
                /\ EndCall(t, bLog[t])

\* release_instance: instance.cleanup() of the retired instance has finished
release_cleanup_step(t) ==
    /\ bPc[t] = "release_cleanup"
    /\ UNCHANGED bHeld
    /\ IF ~InPool(bVictim[t], browser_pool)
       THEN Raised(t) /\ UNCHANGED <<browser_pool, instance>>
       ELSE /\ browser_pool' = PoolWithout(browser_pool, bVictim[t])
            /\ instance' = Live(instance, PoolWithout(browser_pool, bVictim[t]), bHeld)
            /\ EndCall(t, bLog[t])

GetBrowserInstance(t, force_new) ==
    get_browser_instance(t, force_new) /\ UNCHANGED <<now, otherVars, dataVars, smVars, scVars, enVars>>
CleanupOldStep(t) == cleanup_old_step(t) /\ UNCHANGED <<now, otherVars, dataVars, smVars, scVars, enVars>>
CreateNewInstanceDone(t, ok) ==
    create_new_instance_done(t, ok) /\ UNCHANGED <<now, otherVars, dataVars, smVars, scVars, enVars>>
WaitStep(t) == wait_step(t) /\ UNCHANGED <<now, otherVars, dataVars, smVars, scVars, enVars>>
CleanupLruStep(t) == cleanup_lru_step(t) /\ UNCHANGED <<now, otherVars, dataVars, smVars, scVars, enVars>>
ReleaseInstance(t) == release_instance(t) /\ UNCHANGED <<now, otherVars, dataVars, smVars, scVars, enVars>>
ReleaseCleanupStep(t) == release_cleanup_step(t) /\ UNCHANGED <<now, otherVars, dataVars, smVars, scVars, enVars>>

(***************************************************************************)
(* Part 5. SessionManager (scraper/session_manager.py)                     *)
(*                                                                         *)
(* No method of the session manager suspends between its reads and writes  *)
(* of self.sessions except at the browser calls of save and restore, so    *)
(* each method is one action.  MaxSessions stands for max_sessions (10),   *)
(* MaxSessionAge for max_session_age (3600 s), MaxSessionIdle for the      *)
(* 1800 s of inactivity.  A string is a sequence of characters.            *)
(***************************************************************************)
MaxSessions == 1
MaxSessionAge == 2
MaxSessionIdle == 1
MaxSessionIds == 3
MaxRequestCount == 1

SessionIds == 1..MaxSessionIds
Urls == {"site/", "site/list"}
Blank == "about:blank"

\* cookies as context.cookies() returns them
Cookies == {[name |-> n, httpOnly |-> h] : n \in {"sid", "theme"}, h \in BOOLEAN}
CookieLists ==
    {<<>>} \cup {<<c>> : c \in Cookies}
           \cup {<<c, d>> : c \in {x \in Cookies : x.name = "sid"},
                            d \in {x \in Cookies : x.name = "theme"}}

\* storage keys and values: plain, with a single quote, with a backslash
StorageKeys == {<<"k">>}
StorageValues == {<<"a">>, <<"a", "'">>, <<"\\", "a">>}
StorageDicts ==
    {<<>>} \cup {<<[key |-> k, value |-> v]>> : k \in StorageKeys, v \in StorageValues}

SessionState(session_id, url, t) ==
    [session_id |-> session_id, url |-> url, cookies |-> <<>>,
     local_storage |-> <<>>, session_storage |-> <<>>, current_page |-> "",
     visited_pages |-> <<>>, created_at |-> t, last_activity |-> t,
     request_count |-> 0]

NoSession == SessionState(None, "", 0)

\* a fresh context and page
FreshPage == [cookies |-> <<>>, local_storage |-> <<>>, session_storage |-> <<>>,
              url |-> Blank]

Held(ss, sid) == \E i \in 1..Len(ss) : ss[i].session_id = sid

Position(ss, sid) == CHOOSE i \in 1..Len(ss) : ss[i].session_id = sid

\* self.sessions.get(sid)
GetSession(ss, sid) == IF Held(ss, sid) THEN ss[Position(ss, sid)] ELSE NoSession

\* _cleanup_session: del self.sessions[sid] when it is there
_cleanup_session(ss, sid) == SelectSeq(ss, LAMBDA s : s.session_id # sid)

\* self.sessions[sid] = session: a new key goes last, a known key keeps its place
PutSession(ss, session) ==
    IF Held(ss, session.session_id)
    THEN [ss EXCEPT ![Position(ss, session.session_id)] = session]
    ELSE Append(ss, session)

Expired(s, t) ==
    \/ t - s.created_at > MaxSessionAge
    \/ t - s.last_activity > MaxSessionIdle

\* the key min() returns: smallest last_activity, the first such in dict order
LruSession(ss) ==
    ss[CHOOSE i \in 1..Len(ss) : \A j \in 1..Len(ss) :
          \/ ss[i].last_activity < ss[j].last_activity
          \/ ss[i].last_activity = ss[j].last_activity /\ i <= j].session_id

RECURSIVE DropLru(_)
DropLru(ss) ==
    IF Len(ss) > MaxSessions THEN DropLru(_cleanup_session(ss, LruSession(ss))) ELSE ss

_cleanup_old_sessions(ss, t) == DropLru(SelectSeq(ss, LAMBDA s : ~Expired(s, t)))

\* self.sessions after create_session(url, session_id)
CreateSessionIn(ss, session_id, url, t) ==
    PutSession(_cleanup_old_sessions(ss, t), SessionState(session_id, url, t))

\* a transfer of every cookie
TransferableCookies_All(cookies) == cookies

\* the cookies rotate_session transfers: not cookie.get('httpOnly', False)
TransferableCookies(cookies) == SelectSeq(cookies, LAMBDA c : ~c.httpOnly)

\* the string a single-quoted JavaScript literal with body s denotes, as the
\* f-string of restore_session_state builds it: a quote ends the literal early
\* and a backslash escapes the character after it
RECURSIVE JsLiteral(_)
JsLiteral(s) ==
    IF s = <<>> THEN [ok |-> TRUE, value |-> <<>>]
    ELSE IF Head(s) = "'" THEN [ok |-> FALSE, value |-> <<>>]
    ELSE IF Head(s) = "\\"
    THEN IF Len(s) = 1 THEN [ok |-> FALSE, value |-> <<>>]
         ELSE LET r == JsLiteral(Tail(Tail(s)))
              IN  [ok |-> r.ok, value |-> <<s[2]>> \o r.value]
    ELSE LET r == JsLiteral(Tail(s))
         IN  [ok |-> r.ok, value |-> <<Head(s)>> \o r.value]

\* storage.setItem(key, value)
SetItem(storage, key, value) ==
    IF \E i \in 1..Len(storage) : storage[i].key = key
    THEN [i \in 1..Len(storage) |->
            IF storage[i].key = key THEN [key |-> key, value |-> value] ELSE storage[i]]
    ELSE Append(storage, [key |-> key, value |-> value])

\* page.evaluate(f"...setItem('{key}', '{value}')") for each item of dict, in
\* order; ok is false when an evaluate raised, and the items before it are set
RECURSIVE RestoreStorage(_, _)
RestoreStorage(storage, dict) ==
    IF dict = <<>> THEN [ok |-> TRUE, storage |-> storage]
    ELSE LET k == JsLiteral(Head(dict).key)
             v == JsLiteral(Head(dict).value)
         IN  IF k.ok /\ v.ok
             THEN RestoreStorage(SetItem(storage, k.value, v.value), Tail(dict))
             ELSE [ok |-> FALSE, storage |-> storage]

\* the context and page after restore_session_state(session) on a fresh one
RestoredPage(session) ==
    LET p1 == [FreshPage EXCEPT !.cookies = session.cookies, !.url = session.url]
        ls == RestoreStorage(<<>>, session.local_storage)
        p2 == [p1 EXCEPT !.local_storage = ls.storage]
        st == RestoreStorage(<<>>, session.session_storage)
        p3 == [p2 EXCEPT !.session_storage = st.storage]
    IN  IF ~ls.ok THEN [ok |-> FALSE, page |-> p2]
        ELSE IF ~st.ok THEN [ok |-> FALSE, page |-> p3]
        ELSE IF session.current_page # "" /\ session.current_page # session.url
        THEN [ok |-> TRUE, page |-> [p3 EXCEPT !.url = session.current_page]]
        ELSE [ok |-> TRUE, page |-> p3]

\* generate_id("session"): an id held nowhere, and not the caller's other
FreshSessionId(ss, other) ==
    CHOOSE i \in SessionIds :
        /\ ~Held(ss, i) /\ i # other
        /\ \A j \in SessionIds : (~Held(ss, j) /\ j # other) => i <= j

NoRotation == [done |-> FALSE, old |-> NoSession, new |-> NoSession,
               old_held |-> FALSE, new_held |-> FALSE]
NoRestore == [done |-> FALSE, session |-> NoSession, page |-> FreshPage, ok |-> FALSE]

\* create_session(url, session_id); session_id = None asks for a generated id
CreateSession(url, session_id) ==
    /\ Len(sessions) < MaxSessionIds - 1
    /\ sessions' = CreateSessionIn(sessions,
                       IF session_id = None THEN FreshSessionId(sessions, None)
                       ELSE session_id, url, now)
    /\ rotated' = NoRotation /\ restored' = NoRestore
    /\ UNCHANGED <<now, otherVars, dataVars, bmVars, scVars, enVars>>

\* the save_session_state calls that the held sessions have seen
RECURSIVE TotalRequests(_)
TotalRequests(ss) ==
    IF ss = <<>> THEN 0 ELSE Head(ss).request_count + TotalRequests(Tail(ss))

\* save_session_state(session_id, page, context): page is what the browser
\* answers for cookies, the two storages and the URL
SaveSessionState(session_id, page) ==
    /\ Held(sessions, session_id)
    /\ TotalRequests(sessions) < MaxRequestCount
    /\ LET s == GetSession(sessions, session_id)
       IN  /\ sessions' = PutSession(sessions,
                 [s EXCEPT !.cookies = page.cookies,
                           !.local_storage = page.local_storage,
                           !.session_storage = page.session_storage,
                           !.current_page = page.url,
                           !.last_activity = now,
                           !.request_count = @ + 1,
                           !.visited_pages =
                               IF \E i \in 1..Len(@) : @[i] = page.url
                               THEN @ ELSE Append(@, page.url)])
    /\ rotated' = NoRotation /\ restored' = NoRestore
    /\ UNCHANGED <<now, otherVars, dataVars, bmVars, scVars, enVars>>

\* restore_session_state(session_id, page, context) on a fresh context and page
RestoreSessionState(session_id) ==
    /\ Held(sessions, session_id)
    /\ LET s == GetSession(sessions, session_id)
           r == RestoredPage(s)
       IN  /\ restored' = [done |-> TRUE, session |-> s, page |-> r.page, ok |-> r.ok]
           /\ sessions' = IF r.ok
                          THEN PutSession(sessions, [s EXCEPT !.last_activity = now])
                          ELSE sessions
    /\ rotated' = NoRotation
    /\ UNCHANGED <<now, otherVars, dataVars, bmVars, scVars, enVars>>

\* rotate_session(old_session_id, url)
RotateSession(old_session_id, url) ==
    /\ Len(sessions) < MaxSessionIds - 1
    /\ LET id == FreshSessionId(sessions, old_session_id)
           created == CreateSessionIn(sessions, id, url, now)
           old_session == GetSession(created, old_session_id)
           new_session ==
               IF Held(created, old_session_id)
               THEN [GetSession(created, id) EXCEPT
                        !.cookies = TransferableCookies(old_session.cookies)]
               ELSE GetSession(created, id)
           after == _cleanup_session(PutSession(created, new_session), old_session_id)
       IN  /\ sessions' = after
           /\ rotated' = [done |-> TRUE,
                          old |-> GetSession(sessions, old_session_id),
                          new |-> new_session,
                          old_held |-> Held(after, old_session_id),
                          new_held |-> Held(after, id)]
    /\ restored' = NoRestore
    /\ UNCHANGED <<now, otherVars, dataVars, bmVars, scVars, enVars>>

\* cleanup_session(session_id)
CleanupSession(session_id) ==
    /\ Held(sessions, session_id)
    /\ sessions' = _cleanup_session(sessions, session_id)
    /\ rotated' = NoRotation /\ restored' = NoRestore
    /\ UNCHANGED <<now, otherVars, dataVars, bmVars, scVars, enVars>>

(***************************************************************************)
(* Part 6. DynamicScraper.scrape_site (scraper/dynamic_scraper.py)         *)
(*                                                                         *)
(* Tasks run scrape_site on one DynamicScraper, whose browser manager and  *)
(* session manager they share.  The llm_hub is handed to the scraper from  *)
(* outside: its generate_strategy call raises (the LLMHub of llm/hub.py    *)
(* has no such method, so the call raises AttributeError), or returns an   *)
(* unsuccessful or a successful response.                                  *)
(***************************************************************************)
SiteUrl == "site/"

\* what the page of a cooperative site answers to save_session_state
SitePage == [cookies |-> <<>>, local_storage |-> <<>>, session_storage |-> <<>>,
             url |-> SiteUrl]

NoExit == [exit |-> "none", instance |-> None, session |-> None]

StrategyOutcomes == {"raises", "failed", "ok"}
WorkOutcomes == {"success", "no_data", "exception"}

\* scrape_site returns or raises: the task is done with this call
ScrapeExit(t, exit, inst, session) ==
    /\ sPc' = [sPc EXCEPT ![t] = "returned"]
    /\ sSession' = [sSession EXCEPT ![t] = None]
    /\ sExit' = [sExit EXCEPT ![t] = [exit |-> exit, instance |-> inst,
                                      session |-> session]]

\* the session half of the finally block: cleanup_session(session.session_id)
FinallySession(t, ss) ==
    IF sSession[t] # None THEN _cleanup_session(ss, sSession[t]) ELSE ss

\* the finally block of scrape_site for a task that holds an instance:
\* release_instance, and cleanup_session once release_instance has returned
FinallyBlock(t, exit, ss) ==
    /\ release_instance(t)
    /\ IF bPc'[t] = "release_cleanup"
       THEN /\ sPc' = [sPc EXCEPT ![t] = "releasing"]
            /\ sessions' = ss
            /\ sExit' = [sExit EXCEPT ![t] = [exit |-> exit, instance |-> bHeld[t],
                                              session |-> sSession[t]]]
            /\ UNCHANGED sSession
       ELSE /\ sessions' = FinallySession(t, ss)
            /\ ScrapeExit(t, exit, bHeld[t], sSession[t])

\* scrape_site is called: it awaits llm_hub.generate_strategy
ScrapeStart(t) ==
    /\ sPc[t] \in {"idle", "returned"}
    /\ bPc[t] = "idle"
    /\ sPc' = [sPc EXCEPT ![t] = "strategy"]
    /\ sExit' = [sExit EXCEPT ![t] = NoExit]
    /\ UNCHANGED <<sSession, now, otherVars, dataVars, bmVars, smVars, enVars>>

\* generate_strategy has answered; on success create_session and
\* get_browser_instance follow without a suspension between them
StrategyDone(t, outcome) ==
    /\ sPc[t] = "strategy"
    /\ IF outcome = "ok"
       THEN /\ Len(sessions) < MaxSessionIds - 1
            /\ LET id == FreshSessionId(sessions, None)
               IN  /\ sessions' = CreateSessionIn(sessions, id, SiteUrl, now)
                   /\ sSession' = [sSession EXCEPT ![t] = id]
            /\ get_browser_instance(t, FALSE)
            /\ sPc' = [sPc EXCEPT ![t] = "acquire"]
            /\ UNCHANGED sExit
       ELSE /\ ScrapeExit(t, IF outcome = "raises" THEN "exception" ELSE "no_strategy",
                          None, None)
            /\ UNCHANGED <<sessions, bmVars>>
    /\ UNCHANGED <<rotated, restored, now, otherVars, dataVars, enVars>>

\* get_browser_instance resumes after a suspension; when it raises, the
\* except clause and the finally block run with browser_instance = None
AcquireStep(t) ==
    /\ sPc[t] = "acquire"
    /\ \/ cleanup_old_step(t)
       \/ \E ok \in BOOLEAN : create_new_instance_done(t, ok)
       \/ wait_step(t)
       \/ cleanup_lru_step(t)
    /\ IF bPc'[t] = "idle"
       THEN /\ sessions' = FinallySession(t, sessions)
            /\ ScrapeExit(t, "exception", None, sSession[t])
       ELSE UNCHANGED <<sessions, scVars>>
    /\ UNCHANGED <<rotated, restored, now, otherVars, dataVars, enVars>>

\* rate limiting, navigation (which saves the session state), filters,
\* extraction and quality assessment have run, or one of them raised
ScrapeWork(t, outcome) ==
    /\ sPc[t] = "acquire"
    /\ bPc[t] = "holding"
    /\ IF outcome = "exception"
       THEN \* except clause: _attempt_error_recovery awaits the page and the LLM
            /\ sPc' = [sPc EXCEPT ![t] = "recovery"]
            /\ UNCHANGED <<sSession, sExit, sessions, bmVars>>
       ELSE LET s == GetSession(sessions, sSession[t])
                saved == IF Held(sessions, sSession[t])
                         THEN PutSession(sessions,
                                [s EXCEPT !.current_page = SitePage.url,
                                          !.last_activity = now,
                                          !.request_count = @ + 1,
                                          !.visited_pages = <<SitePage.url>>])
                         ELSE sessions
            IN  FinallyBlock(t, outcome, saved)
    /\ UNCHANGED <<rotated, restored, now, otherVars, dataVars, enVars>>

\* _attempt_error_recovery has returned (it swallows its own exceptions)
RecoveryDone(t, recovered) ==
    /\ sPc[t] = "recovery"
    /\ FinallyBlock(t, IF recovered THEN "recovered" ELSE "exception", sessions)
    /\ UNCHANGED <<rotated, restored, now, otherVars, dataVars, enVars>>

\* the task is cancelled while it is suspended: CancelledError is raised at
\* its await, passes the except clause and runs the finally block
ScrapeCancel(t) ==
    /\ sPc[t] \in {"strategy", "acquire", "recovery", "releasing"}
    /\ \/ /\ sPc[t] = "strategy"
          /\ ScrapeExit(t, "cancelled", None, None)
          /\ UNCHANGED <<sessions, bmVars>>
       \/ /\ sPc[t] = "acquire" /\ bPc[t] \notin {"holding", "idle"}
          /\ EndCall(t, [bLog[t] EXCEPT !.kind = "raised"])
          /\ sessions' = FinallySession(t, sessions)
          /\ ScrapeExit(t, "cancelled", None, sSession[t])
          /\ UNCHANGED <<browser_pool, instance, bHeld>>
       \/ /\ sPc[t] = "acquire" /\ bPc[t] = "holding"
          /\ FinallyBlock(t, "cancelled", sessions)
       \/ /\ sPc[t] = "recovery"
          /\ FinallyBlock(t, "cancelled", sessions)
       \/ /\ sPc[t] = "releasing" /\ bPc[t] = "release_cleanup"
          /\ EndCall(t, [bLog[t] EXCEPT !.kind = "raised"])
          /\ ScrapeExit(t, "cancelled", sExit[t].instance, sExit[t].session)
          /\ UNCHANGED <<sessions, browser_pool, instance, bHeld>>
    /\ UNCHANGED <<rotated, restored, now, otherVars, dataVars, enVars>>

\* release_instance resumes after its suspension and returns, or raises
\* KeyError: the rest of the finally block
ReleaseDone(t) ==
    /\ sPc[t] = "releasing"
    /\ release_cleanup_step(t)
    /\ sessions' = IF bLog'[t].kind = "raised" THEN sessions
                   ELSE FinallySession(t, sessions)
    /\ ScrapeExit(t, sExit[t].exit, sExit[t].instance, sExit[t].session)
    /\ UNCHANGED <<rotated, restored, now, otherVars, dataVars, enVars>>

(***************************************************************************)
(* Part 7. ScrapingEngine (core/engine.py)                                 *)
(*                                                                         *)
(* Each request is a process_request coroutine; cancel_request may be      *)
(* called while it is suspended.  DynamicScraper has no method             *)
(* scrape_with_strategy, so step 5 of process_request raises               *)
(* AttributeError inside the async with block.                             *)
(***************************************************************************)
MaxUrls == 2

Requests == {"r1", "r2"}

NoResponse == [returned |-> FALSE, success |-> FALSE, error |-> "none"]

ScrapingResponse(error) == [returned |-> TRUE, success |-> FALSE, error |-> error]

\* process_request returns: the finally block drops the id from active_requests
Respond(r, error) ==
    /\ ePc' = [ePc EXCEPT ![r] = "done"]
    /\ eResponse' = [eResponse EXCEPT ![r] = ScrapingResponse(error)]
    /\ active_requests' = active_requests \ {r}
    /\ eUrls' = [eUrls EXCEPT ![r] = 0]

\* the run of request r goes on to its next await
Proceed(r, p) ==
    /\ ePc' = [ePc EXCEPT ![r] = p]
    /\ eAfterCancel' = [eAfterCancel EXCEPT ![r] = @ \/ eCancelled[r]]

\* process_request(prompt) is called: it awaits process_prompt
ProcessRequest(r) ==
    /\ ePc[r] \in {"idle", "done"}
    /\ ePc' = [ePc EXCEPT ![r] = "prompt"]
    /\ eResponse' = [eResponse EXCEPT ![r] = NoResponse]
    /\ eCancelled' = [eCancelled EXCEPT ![r] = FALSE]
    /\ eAfterCancel' = [eAfterCancel EXCEPT ![r] = FALSE]
    /\ UNCHANGED <<active_requests, eUrls>>
    /\ UNCHANGED <<now, otherVars, dataVars, bmVars, smVars, scVars>>

\* process_prompt has answered with n target URLs, or raised (n = None)
PromptDone(r, n) ==
    /\ ePc[r] = "prompt"
    /\ IF n = None THEN Respond(r, "Request processing failed") /\ UNCHANGED eAfterCancel
       ELSE IF n = 0 THEN Respond(r, "No valid URLs found in prompt")
                          /\ UNCHANGED eAfterCancel
       ELSE /\ Proceed(r, "validate")
            /\ eUrls' = [eUrls EXCEPT ![r] = n]
            /\ UNCHANGED <<active_requests, eResponse>>
    /\ UNCHANGED eCancelled
    /\ UNCHANGED <<now, otherVars, dataVars, bmVars, smVars, scVars>>

\* validate_parameters has answered; a valid request enters active_requests
\* and the reconnaissance of the first URL starts
ValidateDone(r, valid) ==
    /\ ePc[r] = "validate"
    /\ IF valid
       THEN /\ active_requests' = active_requests \cup {r}
            /\ Proceed(r, "recon")
            /\ UNCHANGED <<eResponse, eUrls>>
       ELSE Respond(r, "Parameter validation failed") /\ UNCHANGED eAfterCancel
    /\ UNCHANGED eCancelled
    /\ UNCHANGED <<now, otherVars, dataVars, bmVars, smVars, scVars>>

\* analyze_site of one URL has answered (ok) or raised; after the last URL
\* the strategy generation starts
ReconDone(r, ok) ==
    /\ ePc[r] = "recon"
    /\ IF ~ok THEN Respond(r, "Request processing failed") /\ UNCHANGED eAfterCancel
       ELSE /\ eUrls' = [eUrls EXCEPT ![r] = @ - 1]
            /\ Proceed(r, IF eUrls[r] > 1 THEN "recon" ELSE "strategy")
            /\ UNCHANGED <<active_requests, eResponse>>
    /\ UNCHANGED eCancelled
    /\ UNCHANGED <<now, otherVars, dataVars, bmVars, smVars, scVars>>

\* generate_scraping_strategy has answered; on success the scraper is entered
EngineStrategyDone(r, success) ==
    /\ ePc[r] = "strategy"
    /\ IF success
       THEN /\ Proceed(r, "scraper")
            /\ UNCHANGED <<active_requests, eResponse, eUrls>>
       ELSE Respond(r, "Strategy generation failed") /\ UNCHANGED eAfterCancel
    /\ UNCHANGED eCancelled
    /\ UNCHANGED <<now, otherVars, dataVars, bmVars, smVars, scVars>>

\* DynamicScraper.__aenter__ has started the browser manager; the call
\* scraper.scrape_with_strategy raises AttributeError, __aexit__ runs and the
\* except clause answers
ScraperEntered(r) ==
    /\ ePc[r] = "scraper"
    /\ Respond(r, "Request processing failed")
    /\ eAfterCancel' = [eAfterCancel EXCEPT ![r] = @ \/ eCancelled[r]]
    /\ UNCHANGED eCancelled
    /\ UNCHANGED <<now, otherVars, dataVars, bmVars, smVars, scVars>>

\* get_request_status(request_id): None for an id not in active_requests
NoStatus == [request_id |-> "none", status |-> "none"]

get_request_status(active, r) ==
    IF r \notin active THEN NoStatus
    ELSE [request_id |-> r, status |-> "processing"]

\* a cancel_request that answers True for every id
cancel_request_AlwaysTrue(active, r) ==
    [returned |-> TRUE, active_requests |-> active \ {r}]

\* cancel_request(request_id): what it returns, and active_requests afterwards
cancel_request(active, r) ==
    [returned |-> r \in active, active_requests |-> active \ {r}]

\* cancel_request(request_id) is called
CancelRequest(r) ==
    /\ LET c == cancel_request(active_requests, r)
       IN  /\ active_requests' = c.active_requests
           /\ eCancelled' = [eCancelled EXCEPT ![r] = @ \/ c.returned]
    /\ UNCHANGED <<ePc, eUrls, eResponse, eAfterCancel>>
    /\ UNCHANGED <<now, otherVars, dataVars, bmVars, smVars, scVars>>

(***************************************************************************)
(* Part 8: scraper/dynamic_scraper.py - ExtractionResult, and the body of  *)
(* scrape_site for one caller: strategy, navigation, filters, extraction,  *)
(* quality assessment, recovery. The browser and session side of the same  *)
(* method is Part 6. A row is recorded by the page it was extracted from.  *)
(***************************************************************************)
\* add_error keeps this many errors
ErrorLimit == 10
\* add_error calls on the result used on its own
MaxAdds == 12
ErrorMsgs == {"e1", "e2"}
\* settings.scraping.max_pages_per_session
MaxPagesPerSession == 3
\* rows one page can yield
MaxRowsPerPage == 1

PaginationTypes == {"numbered", "next_prev", "infinite_scroll", "load_more"}
PageContents == {"plain", "cloudflare", "captcha"}

ExtractionResult(success) ==
    [success |-> success, data |-> <<>>, total_items |-> 0,
     pages_processed |-> 0, errors |-> <<>>]

add_data(r, items) ==
    [r EXCEPT !.data = @ \o items, !.total_items = Len(r.data \o items)]

add_error_KeepOldest(r, error) ==
    LET a == Append(r.errors, error)
    IN  [r EXCEPT !.errors = IF Len(a) > ErrorLimit THEN SubSeq(a, 1, ErrorLimit) ELSE a]

add_error(r, error) ==
    LET a == Append(r.errors, error)
    IN  [r EXCEPT !.errors =
            IF Len(a) > ErrorLimit THEN SubSeq(a, Len(a) - ErrorLimit + 1, Len(a)) ELSE a]

\* add_error on a result used on its own
AddError(error) ==
    /\ Len(erAdded) < MaxAdds
    /\ er' = add_error(er, error)
    /\ erAdded' = Append(erAdded, error)
    /\ UNCHANGED <<now, otherVars, scraperVars, xPc, xSite, xResult, xLocals, xLog, plVars,
                   prVars, adVars>>

\* ---- scrape_site ----
Rows(n, page) == [i \in 1..n |-> [page |-> page]]

NoPagination == "none"     \* site_metadata.pagination is None
NoSite == [filters |-> FALSE, pagination |-> NoPagination]
NoLocals ==
    [browser_instance |-> FALSE, page_result |-> ExtractionResult(FALSE), current_page |-> 1]
NoLog ==
    [attempted |-> 0, empty_pages |-> 0, resolve_calls |-> 0, retries |-> 0,
     filters_applied |-> FALSE, captcha_persists |-> FALSE]

\* handle_captcha_detection: True when the page shows no marker or the
\* Cloudflare challenge went away, False when the challenge is still there
handle_captcha_detection(content, cleared) ==
    CASE content = "plain"      -> TRUE
      [] content = "cloudflare" -> cleared
      [] OTHER                  -> FALSE

\* _navigate_to_next_page: whether a next page was reached
_navigate_to_next_page(type, element, raises) ==
    IF raises THEN FALSE
    ELSE CASE type \in {"numbered", "load_more"} -> element
           [] type = "infinite_scroll"           -> TRUE
           [] OTHER                              -> FALSE

\* result.success = len(result.data) > 0
SetSuccess_Keep(r) == r

SetSuccess(r) == [r EXCEPT !.success = Len(r.data) > 0]

xRest == <<now, otherVars, scraperVars, er, erAdded, plVars, prVars, adVars>>

\* the except clause, up to the recovery attempt
ExceptClause(r, browser_instance) ==
    /\ xResult' = add_error(r, "Scraping failed")
    /\ xPc' = IF browser_instance THEN "recovery" ELSE "finally"

ExtractPc == IF xSite.pagination # NoPagination THEN "page" ELSE "extract"
AfterExtraction(r) == IF r.data # <<>> THEN "quality" ELSE "finally"

ScrapeSite(filters, pagination) ==
    /\ xPc \in {"idle", "done", "raised"}
    /\ xPc' = "strategy"
    /\ xSite' = [filters |-> filters, pagination |-> pagination]
    /\ xResult' = ExtractionResult(FALSE)
    /\ xLocals' = NoLocals
    /\ xLog' = NoLog
    /\ UNCHANGED xRest

\* llm_hub.generate_strategy answered
XStrategy(outcome) ==
    /\ xPc = "strategy"
    /\ CASE outcome = "failed" ->
              /\ xResult' = add_error(xResult, "Strategy generation failed")
              /\ xPc' = "finally"
         [] outcome = "raises" -> ExceptClause(xResult, FALSE)
         [] OTHER -> xPc' = "setup" /\ UNCHANGED xResult
    /\ UNCHANGED <<xSite, xLocals, xLog, xRest>>

\* create_session, get_browser_instance, apply_rate_limiting
XSetup(outcome) ==
    /\ xPc = "setup"
    /\ xLocals' = [xLocals EXCEPT !.browser_instance = outcome \in {"ok", "rate_raises"}]
    /\ IF outcome = "ok"
       THEN xPc' = "navigate" /\ UNCHANGED xResult
       ELSE ExceptClause(xResult, outcome = "rate_raises")
    /\ UNCHANGED <<xSite, xLog, xRest>>

\* _navigate_to_site: the value of handle_captcha_detection is dropped
XNavigate(outcome, content, cleared) ==
    /\ xPc = "navigate"
    /\ IF outcome = "raises"
       THEN ExceptClause(xResult, TRUE) /\ UNCHANGED xLog
       ELSE /\ xLog' = [xLog EXCEPT !.captcha_persists =
                            ~handle_captcha_detection(content, cleared)]
            /\ xPc' = IF xSite.filters THEN "filters" ELSE ExtractPc
            /\ UNCHANGED xResult
    /\ UNCHANGED <<xSite, xLocals, xRest>>

\* _apply_filters: nothing without a filter_sequence; a failing filter is skipped
XFilters(has_sequence) ==
    /\ xPc = "filters"
    /\ xLog' = [xLog EXCEPT !.filters_applied = has_sequence]
    /\ xPc' = ExtractPc
    /\ UNCHANGED <<xSite, xResult, xLocals, xRest>>

\* single page extraction
XExtractSingle(n) ==
    /\ xPc = "extract"
    /\ LET r == SetSuccess([add_data(xResult, Rows(n, 1)) EXCEPT !.pages_processed = 1])
       IN  /\ xResult' = r
           /\ xPc' = AfterExtraction(r)
    /\ xLog' = [xLog EXCEPT !.attempted = @ + 1,
                            !.empty_pages = @ + (IF n = 0 THEN 1 ELSE 0)]
    /\ UNCHANGED <<xSite, xLocals, xRest>>

\* _extract_with_pagination: one page extracted
XExtractPage(n) ==
    /\ xPc = "page"
    /\ xLocals' = [xLocals EXCEPT !.page_result =
                      IF n > 0
                      THEN [add_data(@, Rows(n, xLocals.current_page))
                               EXCEPT !.pages_processed = @ + 1]
                      ELSE @]
    /\ xLog' = [xLog EXCEPT !.attempted = @ + 1,
                            !.empty_pages = @ + (IF n = 0 THEN 1 ELSE 0)]
    /\ xPc' = "next"
    /\ UNCHANGED <<xSite, xResult, xRest>>

\* a loop without the page cap
LoopContinues_NoCap(current_page) == TRUE

\* while current_page <= max_pages
LoopContinues(current_page) == current_page <= MaxPagesPerSession

\* _extract_with_pagination returns r to scrape_site
PaginationReturn(r) ==
    /\ xResult' = SetSuccess(r)
    /\ xPc' = AfterExtraction(r)

\* _extract_with_pagination: next page, state save, rate limiting
XNextPage(element, raises, after) ==
    /\ xPc = "next"
    /\ LET pr == xLocals.page_result
           done == [pr EXCEPT !.success = pr.total_items > 0]
           failed == add_error(pr, "Pagination extraction failed")
       IN  IF ~_navigate_to_next_page(xSite.pagination, element, raises)
           THEN PaginationReturn(done) /\ UNCHANGED xLocals
           ELSE IF after = "raises"
           THEN /\ xLocals' = [xLocals EXCEPT !.page_result = failed]
                /\ PaginationReturn(failed)
           ELSE /\ xLocals' = [xLocals EXCEPT !.current_page = @ + 1]
                /\ IF LoopContinues(xLocals.current_page + 1)
                   THEN xPc' = "page" /\ UNCHANGED xResult
                   ELSE PaginationReturn(done)
    /\ UNCHANGED <<xSite, xLog, xRest>>

\* llm_hub.assess_quality answered
XQuality(outcome) ==
    /\ xPc = "quality"
    /\ IF outcome = "raises"
       THEN ExceptClause(xResult, TRUE)
       ELSE xPc' = "finally" /\ UNCHANGED xResult
    /\ UNCHANGED <<xSite, xLocals, xLog, xRest>>

RecoveryOutcomes == {"page_raises", "llm_raises", "llm_failed", "no_selectors", "selectors"}

\* _attempt_error_recovery(page, error_msg, result), n rows from the new selectors
_attempt_error_recovery(r, outcome, n, page) ==
    CASE outcome \in {"page_raises", "llm_raises"} ->
            add_error(r, "Error recovery attempt failed")
      [] outcome = "llm_failed"   -> add_error(r, "LLM error resolution failed")
      [] outcome = "no_selectors" -> add_error(r, "LLM recovery provided no updated selectors")
      [] OTHER ->
            IF n > 0
            THEN [add_data(r, Rows(n, page)) EXCEPT !.success = TRUE]
            ELSE add_error(r, "LLM recovery attempt failed - no data extracted")

XRecovery(outcome, n) ==
    /\ xPc = "recovery"
    /\ xResult' = _attempt_error_recovery(xResult, outcome, n, xLocals.current_page)
    /\ xLog' = [xLog EXCEPT
                   !.resolve_calls = @ + (IF outcome # "page_raises" THEN 1 ELSE 0),
                   !.retries = @ + (IF outcome = "selectors" THEN 1 ELSE 0)]
    /\ xPc' = "finally"
    /\ UNCHANGED <<xSite, xLocals, xRest>>

\* the finally clause; when it raises, no result is returned
XFinally(ok) ==
    /\ xPc = "finally"
    /\ xPc' = IF ok THEN "done" ELSE "raised"
    /\ UNCHANGED <<xSite, xResult, xLocals, xLog, xRest>>

(***************************************************************************)
(* Part 9: data/processors.py and data/pipeline.py                         *)
(*                                                                         *)
(* A row (a dict) is the sequence of its fields in insertion order. A      *)
(* value is a str (field s: its characters; "https://", "http://" and      *)
(* "x.com" stand for those substrings) or a number (field n). Strings of   *)
(* the model hold no decimal separator, HTML entity or control character   *)
(* and are shorter than 20 characters; its keys are the ones listed below. *)
(* hashlib.md5 is taken to be free of collisions: the hash of a row is     *)
(* the string json.dumps hands to it.                                      *)
(***************************************************************************)
\* rows in one process_and_export call
MaxRows == 2

Str(s) == [t |-> "str", s |-> s, n |-> 0]
Number(n) == [t |-> "float", s |-> <<>>, n |-> n]
Text(t, s) == [t |-> t, s |-> s, n |-> 0]
Field(k, v) == [key |-> k, value |-> v]

Keys(row) == {row[i].key : i \in DOMAIN row}
Has(row, k) == k \in Keys(row)
Get(row, k) == row[CHOOSE i \in DOMAIN row : row[i].key = k].value
\* row[k] = v
Put(row, k, v) ==
    IF Has(row, k)
    THEN [i \in DOMAIN row |-> IF row[i].key = k THEN Field(k, v) ELSE row[i]]
    ELSE Append(row, Field(k, v))

\* a key that is the integer 7, not a str: key.startswith raises on it
NonStrKeys == {"<7>"}
MetaKeys ==
    {"_extracted_at", "_validation_score", "_validation_errors", "_validation_warnings",
     "_is_valid", "_enriched_at", "_field_count", "_data_age_hours", "_content_hash"}
\* key.startswith('_'), 'price' in key.lower(), 'url' in key.lower()
IsMeta(k) == k \in MetaKeys
PriceKey(k) == k \in {"price", "price_numeric"}
UrlKey(k) == k \in {"url", "url_domain", "url_domain_domain"}
\* f'{field_name}_domain', f'{field_name}_numeric'
DomainKey(k) ==
    CASE k = "url" -> "url_domain"
      [] OTHER     -> "url_domain_domain"
NumericKey(k) == "price_numeric"
\* the content keys in sorted order
SortedKeys == <<"price", "price_numeric", "title", "url", "url_domain", "url_domain_domain">>

ContentFields(row) == SelectSeq(row, LAMBDA f : ~IsMeta(f.key))
SameContent(r1, r2) ==
    /\ Keys(ContentFields(r1)) = Keys(ContentFields(r2))
    /\ \A k \in Keys(ContentFields(r1)) : Get(r1, k) = Get(r2, k)

Contains(s, c) == \E i \in DOMAIN s : s[i] = c
HttpPrefixes == {"https://", "http://"}

\* ---- DataCleaner ----
RECURSIVE Collapse(_)
Collapse(s) ==
    IF Len(s) < 2 THEN s
    ELSE IF s[1] = " " /\ s[2] = " " THEN Collapse(Tail(s))
    ELSE <<s[1]>> \o Collapse(Tail(s))

RECURSIVE LStrip(_)
LStrip(s) == IF s # <<>> /\ s[1] = " " THEN LStrip(Tail(s)) ELSE s

RECURSIVE RStrip(_)
RStrip(s) == IF s # <<>> /\ s[Len(s)] = " " THEN RStrip(SubSeq(s, 1, Len(s) - 1)) ELSE s

Strip(s) == RStrip(LStrip(s))

_clean_text(s) == IF s = <<>> THEN <<>> ELSE Strip(Collapse(s))

IsDigit(c) == c \in {"1", "2"}
\* float(cleaned) succeeds
ParsesAsFloat(s) == s # <<>>

_clean_price(s) ==
    IF s = <<>> THEN <<>>
    ELSE LET cleaned == SelectSeq(s, IsDigit)
         IN  IF ParsesAsFloat(cleaned) THEN cleaned ELSE s

_clean_url(s) ==
    IF s = <<>> THEN <<>>
    ELSE LET cleaned == Strip(s)
         IN  IF cleaned # <<>> /\ cleaned[1] \notin HttpPrefixes
             THEN <<"https://">> \o cleaned
             ELSE cleaned

CleanValue(k, v) ==
    IF v.t # "str" THEN v
    ELSE IF PriceKey(k) \/ Contains(v.s, "$") THEN Str(_clean_price(v.s))
    ELSE IF UrlKey(k) THEN Str(_clean_url(v.s))
    ELSE Str(_clean_text(v.s))

_clean_item(item) ==
    [i \in DOMAIN item |->
        IF IsMeta(item[i].key) THEN item[i]
        ELSE Field(item[i].key, CleanValue(item[i].key, item[i].value))]

\* ---- DataValidator ----
Truthy(v) == IF v.t = "float" THEN v.n # 0 ELSE v.s # <<>>
NonBlank(v) == IF v.t = "float" THEN v.n # 0 ELSE Strip(v.s) # <<>>

_detect_field_type(k, v) ==
    IF UrlKey(k) THEN "url"
    ELSE IF PriceKey(k) THEN "price"
    ELSE IF v.t = "str" /\ v.s[1] \in HttpPrefixes THEN "url"
    ELSE IF v.t = "str" /\ Contains(v.s, "$") THEN "price"
    ELSE "text"

_validate_url(v) == v.t = "str" /\ Strip(v.s) # <<>> /\ Strip(v.s)[1] \in HttpPrefixes
_validate_price(v) == IF v.t = "float" THEN v.n >= 0 ELSE SelectSeq(v.s, IsDigit) # <<>>

FieldWarns(f) ==
    /\ ~IsMeta(f.key)
    /\ Truthy(f.value)
    /\ LET type == _detect_field_type(f.key, f.value)
       IN  \/ type = "url" /\ ~_validate_url(f.value)
           \/ type = "price" /\ ~_validate_price(f.value)

Min(a, b) == IF a < b THEN a ELSE b

\* the quality score in hundredths, and whether it is at least 0.5
_calculate_quality_score(item, warnings) ==
    LET n == Len(ContentFields(item))
        filled == Len(SelectSeq(ContentFields(item), LAMBDA f : NonBlank(f.value)))
        d == IF n > 0 THEN n ELSE 1
        penalty == Min(Len(warnings), 5)
        raw == (100 * filled) \div d - 10 * penalty
    IN  [score |-> IF raw < 0 THEN 0 ELSE raw,
         passes |-> 10 * filled - penalty * d >= 5 * d]

_validate_item(item) ==
    LET required == SelectSeq(ContentFields(item), LAMBDA f : Truthy(f.value))
        warned == SelectSeq(item, FieldWarns)
        warnings == [i \in DOMAIN warned |-> warned[i].key]
        quality == _calculate_quality_score(item, warnings)
    IN  IF required = <<>>
        THEN [is_valid |-> FALSE, errors |-> <<"No valid data fields found">>,
              warnings |-> <<>>, quality_score |-> 0]
        ELSE [is_valid |-> quality.passes, errors |-> <<>>,
              warnings |-> warnings, quality_score |-> quality.score]

Validated(item) ==
    LET v == _validate_item(item)
        r1 == Put(item, "_validation_score", Number(v.quality_score))
        r2 == Put(r1, "_validation_errors", Text("list", v.errors))
        r3 == Put(r2, "_validation_warnings", Text("list", v.warnings))
    IN  Put(r3, "_is_valid", Text(IF v.is_valid THEN "True" ELSE "False", <<>>))

\* ---- DataEnricher ----
\* urlparse(url).netloc.lower(), None as <<>>
_extract_domain(s) ==
    IF Len(s) >= 2 /\ s[1] \in HttpPrefixes THEN <<s[2]>> ELSE <<>>

\* json.dumps(content_fields, sort_keys=True, default=str)
RECURSIVE Flatten(_)
Flatten(ss) == IF ss = <<>> THEN <<>> ELSE ss[1] \o Flatten(Tail(ss))

DumpField(f) ==
    <<f.key, f.value.t>> \o f.value.s \o <<ToString(f.value.n), ",">>

json_dumps_Unsorted(fields) == Flatten([i \in DOMAIN fields |-> DumpField(fields[i])])

json_dumps(fields) ==
    LET present == SelectSeq(SortedKeys, LAMBDA k : Has(fields, k))
    IN  Flatten([i \in DOMAIN present |-> DumpField(Field(present[i], Get(fields, present[i])))])

_generate_content_hash(item) == Text("md5", json_dumps(ContentFields(item)))

\* the loops over item.items() of _enrich_item, field by field
RECURSIVE AddDomains(_, _, _)
AddDomains(item, i, enriched) ==
    IF i > Len(item) THEN enriched
    ELSE LET f == item[i]
             domain == _extract_domain(f.value.s)
         IN  AddDomains(item, i + 1,
                IF f.value.t = "str" /\ (UrlKey(f.key) \/ (f.value.s # <<>> /\ f.value.s[1] \in HttpPrefixes))
                   /\ domain # <<>>
                THEN Put(enriched, DomainKey(f.key), Str(domain))
                ELSE enriched)

\* _normalize_price: float() of the digits, None when there is none
DigitValue(c) == IF c = "1" THEN 1 ELSE 2

RECURSIVE AddNumerics(_, _, _)
AddNumerics(item, i, enriched) ==
    IF i > Len(item) THEN enriched
    ELSE LET f == item[i]
             digits == SelectSeq(f.value.s, IsDigit)
         IN  AddNumerics(item, i + 1,
                IF PriceKey(f.key) /\ f.value.t = "str" /\ digits # <<>>
                THEN Put(enriched, NumericKey(f.key), Number(DigitValue(digits[1])))
                ELSE enriched)

_enrich_item(item) ==
    LET r1 == IF Has(item, "_enriched_at") THEN item ELSE Put(item, "_enriched_at", Number(now))
        r2 == Put(r1, "_field_count", Number(Len(ContentFields(item))))
        r3 == AddDomains(item, 1, r2)
        r4 == AddNumerics(item, 1, r3)
        extracted_at == IF Has(item, "_extracted_at") THEN Get(item, "_extracted_at").n ELSE now
        r5 == Put(r4, "_data_age_hours", Number(now - extracted_at))
    IN  Put(r5, "_content_hash", _generate_content_hash(item))

\* ---- the process methods ----
Stages == <<"cleaning", "validation", "enrichment">>

\* whether the stage's work on the item raises: a key that is no str in
\* every stage, an _extracted_at that is no number in the enricher
ItemRaises(stage, item) ==
    \/ Keys(item) \cap NonStrKeys # {}
    \/ stage = "enrichment" /\ Has(item, "_extracted_at") /\ Get(item, "_extracted_at").t # "float"

StageItem(stage, item) ==
    CASE stage = "cleaning"   -> _clean_item(item)
      [] stage = "validation" -> Validated(item)
      [] OTHER                -> _enrich_item(item)

ProcessingStats(total) ==
    [total_items |-> total, processed_items |-> 0, failed_items |-> 0, modifications_made |-> 0]

RECURSIVE process_DropFailed(_, _, _, _)
process_DropFailed(stage, data, out, stats) ==
    IF data = <<>> THEN [data |-> out, stats |-> stats]
    ELSE IF ItemRaises(stage, data[1])
    THEN process_DropFailed(stage, Tail(data), out, [stats EXCEPT !.failed_items = @ + 1])
    ELSE process_DropFailed(stage, Tail(data), Append(out, StageItem(stage, data[1])),
                            [stats EXCEPT !.processed_items = @ + 1])

\* process(data) of the three processors: the loop over the items, with the
\* rows collected so far and the statistics
RECURSIVE process(_, _, _, _)
process(stage, data, out, stats) ==
    IF data = <<>> THEN [data |-> out, stats |-> stats]
    ELSE LET item == data[1]
             new == StageItem(stage, item)
         IN  IF ItemRaises(stage, item)
             THEN process(stage, Tail(data), Append(out, item),
                          [stats EXCEPT !.failed_items = @ + 1])
             ELSE process(stage, Tail(data), Append(out, new),
                    [stats EXCEPT
                        !.processed_items = @ + 1,
                        !.modifications_made =
                            @ + (IF stage # "validation" /\ new # item THEN 1 ELSE 0),
                        !.failed_items =
                            @ + (IF stage = "validation" /\ ~_validate_item(item).is_valid
                                 THEN 1 ELSE 0)])

\* ---- DataPipeline ----
Exporters == {"sheets", "csv", "json", "excel"}
ExportOutcomes == {"ok", "error", "raises"}

PipelineResult(total_input_records) ==
    [success |-> FALSE, total_input_records |-> total_input_records,
     total_output_records |-> 0, export_results |-> <<>>, errors |-> <<>>]

ExportResult(success, error, records_exported) ==
    [success |-> success, error |-> error, records_exported |-> records_exported]

\* _export_data: what the exporter returns, or a failed result when it raises
_export_data(outcome, records) ==
    CASE outcome = "ok"    -> ExportResult(TRUE, "None", records)
      [] outcome = "error" -> ExportResult(FALSE, "export error", 0)
      [] OTHER             -> ExportResult(FALSE, "exception", 0)

\* the overall success of a run
OverallSuccess(r) ==
    /\ r.total_output_records > 0
    /\ Len(r.errors) = 0
    /\ \E i \in DOMAIN r.export_results : r.export_results[i].success

plRest == <<now, otherVars, scraperVars, exVars, prVars, adVars>>

StartCall(data, export_formats, first) ==
    /\ plFormats' = export_formats
    /\ plData' = data
    /\ plTrace' = <<>>
    /\ plFirst' = first
    /\ IF data = <<>>
       THEN /\ plResult' = [PipelineResult(0) EXCEPT
                               !.errors = <<"No data survived processing pipeline">>]
            /\ plPc' = "done"
       ELSE /\ plResult' = PipelineResult(Len(data))
            /\ plPc' = "cleaning"
    /\ UNCHANGED plRest

\* process_and_export(data, export_formats)
ProcessAndExport(data, export_formats) ==
    /\ plPc = "idle"
    /\ StartCall(data, export_formats, <<>>)

\* process_and_export again, on the rows the call before it put out
Rerun ==
    /\ plPc = "done"
    /\ Len(plTrace) = Len(Stages)
    /\ plFirst = <<>>
    /\ StartCall(plData, plFormats, plData)

\* _process_data: one stage
ProcessStage(stage) ==
    /\ plPc = stage
    /\ LET run == process(stage, plData, <<>>, ProcessingStats(Len(plData)))
       IN  /\ plData' = run.data
           /\ plTrace' = Append(plTrace,
                  [stage |-> stage, in |-> plData, out |-> run.data, stats |-> run.stats])
           /\ IF stage = "enrichment"
              THEN /\ plPc' = "storing"
                   /\ plResult' = [plResult EXCEPT !.total_output_records = Len(run.data)]
              ELSE /\ plPc' = IF stage = "cleaning" THEN "validation" ELSE "enrichment"
                   /\ UNCHANGED plResult
    /\ UNCHANGED <<plFormats, plFirst, plRest>>

\* storage.store_data
StoreData(ok) ==
    /\ plPc = "storing"
    /\ IF ok
       THEN plPc' = "exporting" /\ UNCHANGED plResult
       ELSE /\ plResult' = [plResult EXCEPT !.errors = Append(@, "Pipeline execution failed")]
            /\ plPc' = "done"
    /\ UNCHANGED <<plFormats, plData, plTrace, plFirst, plRest>>

\* the exports and the overall success; outcomes[i] is what the exporter of
\* the i-th format does
ExportData(outcomes) ==
    /\ plPc = "exporting"
    /\ LET known == SelectSeq([i \in DOMAIN plFormats |-> i],
                              LAMBDA i : plFormats[i] \in Exporters)
           unknown == SelectSeq(plFormats, LAMBDA f : f \notin Exporters)
           r == [plResult EXCEPT
                    !.errors = @ \o [i \in DOMAIN unknown |-> "Unknown export format"],
                    !.export_results =
                        [i \in DOMAIN known |->
                            _export_data(outcomes[known[i]], plResult.total_output_records)]]
       IN  plResult' = [r EXCEPT !.success = OverallSuccess(r)]
    /\ plPc' = "done"
    /\ UNCHANGED <<plFormats, plData, plTrace, plFirst, plRest>>

(***************************************************************************)
(* Part 10: core/engine.py - the profile of a ScrapingRequest;             *)
(*          scraper/anti_detection.py - apply_rate_limiting                *)
(*                                                                         *)
(* In apply_rate_limiting one unit of `now` is one second, and time.time() *)
(* is EpochOffset + now: the seconds since the epoch, further from 0.0     *)
(* than any interval.                                                      *)
(***************************************************************************)
\* ExtractedIntent: the fields _determine_scraping_profile reads
DetectionLevels == {"low", "medium", "high", "maximum"}
Urgencies == {"low", "normal", "high"}
Volumes == {0, 99, 100, 10000, 10001}
Intents ==
    [detection_level : DetectionLevels, volume_estimate : Volumes, urgency : Urgencies]

_determine_scraping_profile(intent) ==
    IF intent.detection_level = "maximum" THEN "stealth"
    ELSE IF intent.detection_level = "high" THEN "conservative"
    ELSE IF intent.volume_estimate > 10000 THEN "conservative"
    ELSE IF intent.volume_estimate < 100 THEN "aggressive"
    ELSE IF intent.urgency = "high" THEN "aggressive"
    ELSE IF intent.urgency = "low" THEN "conservative"
    ELSE "balanced"

NoRequest ==
    [intent |-> [detection_level |-> "none", volume_estimate |-> 0, urgency |-> "none"],
     scraping_profile |-> "none"]

\* process_request builds the ScrapingRequest of request r from its intent
CreateScrapingRequest(r, intent) ==
    /\ scraping_request' =
          [scraping_request EXCEPT
              ![r] = [intent |-> intent,
                      scraping_profile |-> _determine_scraping_profile(intent)]]
    /\ UNCHANGED <<now, otherVars, scraperVars, exVars, plVars, adVars>>

\* ---- AntiDetectionManager.apply_rate_limiting ----
Domains == {"d1", "d2"}
Profiles == {"conservative", "balanced", "aggressive", "stealth"}

EpochOffset == 10
HistoryWindow == 3600

\* ScrapingProfiles.PROFILES[profile]["rate_limit"]: seconds between requests
ProfileRateLimit(profile) ==
    CASE profile = "conservative" -> 5
      [] profile = "balanced"     -> 2
      [] profile = "aggressive"   -> 1
      [] profile = "stealth"      -> 8

\* 1.0 / rate_limits.get(profile, 0.5): the min_interval of a new limiter
RateLimitInterval(profile) ==
    CASE profile = "conservative" -> 5
      [] profile = "aggressive"   -> 1
      [] OTHER                    -> 2

NoLimiter == [min_interval |-> None, last_call |-> 0]
NoRateLog == [domain |-> "none", profile |-> "none", in_loop |-> FALSE]

\* apply_rate_limiting(domain, profile) by the one running scrape: the
\* limiter's acquire() sleeps wait_time and the call is recorded
apply_rate_limiting(domain, profile) ==
    LET limiter == IF domain_rate_limiters[domain] = NoLimiter
                   THEN RateLimiter(RateLimitInterval(profile))
                   ELSE domain_rate_limiters[domain]
        time_since_last == (EpochOffset + now) - limiter.last_call
        wait_time == IF time_since_last < limiter.min_interval
                     THEN limiter.min_interval - time_since_last
                     ELSE 0
        current_time == EpochOffset + now + wait_time
        cutoff_time == current_time - HistoryWindow
    IN  /\ now + wait_time <= MaxTime
        /\ now' = now + wait_time
        /\ domain_rate_limiters' =
              [domain_rate_limiters EXCEPT
                  ![domain] = [limiter EXCEPT !.last_call = current_time]]
        /\ request_history' =
              [request_history EXCEPT
                  ![domain] = SelectSeq(Append(@, current_time),
                                        LAMBDA timestamp : timestamp > cutoff_time)]

\* scrape_site(site_metadata, strategy, scraping_profile): before it navigates
RateLimitSite(domain, scraping_profile) ==
    /\ apply_rate_limiting(domain, scraping_profile)
    /\ arLog' = [domain |-> domain, profile |-> scraping_profile, in_loop |-> FALSE]
    /\ UNCHANGED <<otherVars, scraperVars, exVars, plVars, prVars>>

\* _extract_with_pagination of the same run: after it reached a next page on
\* `domain`, apply_rate_limiting(domain) with the default profile
RateLimitPage(domain) ==
    /\ arLog.profile # "none"
    /\ apply_rate_limiting(domain, "balanced")
    /\ arLog' = [arLog EXCEPT !.domain = domain, !.in_loop = TRUE]
    /\ UNCHANGED <<otherVars, scraperVars, exVars, plVars, prVars>>

(***************************************************************************)
(* Specifications                                                          *)
(***************************************************************************)
Init ==
    /\ now = StartTime
    /\ cb = CircuitBreaker(FailureThresholdN, RecoveryTimeoutT)
    /\ cbLog = CbLogInit
    /\ rl = RateLimiter(MinIntervalTicks)
    /\ rlPc = [c \in Callers |-> "idle"]
    /\ rlWake = [c \in Callers |-> None]
    /\ rlDone = <<>>
    /\ is_available \in {a \in [Backends -> BOOLEAN] : a["huggingface"]}
    /\ providers = InitializeProviders(is_available)
    /\ provider_priority = GetProviderPriority(providers)
    /\ circuit_breakers =
          [p \in providers |->
              CircuitBreaker(GenFailureThreshold, GenRecoveryTimeoutSeconds \div ClockUnit)]
    /\ pc = "idle"
    /\ idx = 1
    /\ inflight = {}
    /\ attempts = 0
    /\ tried = <<>>
    /\ turns = <<>>
    /\ result = NoStrategy
    /\ browser_pool = <<>>
    /\ instance = [i \in InstanceIds |-> NoInstance]
    /\ bPc = [t \in Tasks |-> "idle"]
    /\ bHeld = [t \in Tasks |-> None]
    /\ bVictim = [t \in Tasks |-> None]
    /\ bTodo = [t \in Tasks |-> <<>>]
    /\ bWait = [t \in Tasks |-> 0]
    /\ bForce = [t \in Tasks |-> FALSE]
    /\ bLog = [t \in Tasks |-> GetLog("none", FALSE, FALSE)]
    /\ sessions = <<>>
    /\ rotated = NoRotation
    /\ restored = NoRestore
    /\ sPc = [t \in Tasks |-> "idle"]
    /\ sSession = [t \in Tasks |-> None]
    /\ sExit = [t \in Tasks |-> NoExit]
    /\ active_requests = {}
    /\ ePc = [r \in Requests |-> "idle"]
    /\ eUrls = [r \in Requests |-> 0]
    /\ eResponse = [r \in Requests |-> NoResponse]
    /\ eCancelled = [r \in Requests |-> FALSE]
    /\ eAfterCancel = [r \in Requests |-> FALSE]
    /\ er = ExtractionResult(FALSE)
    /\ erAdded = <<>>
    /\ xPc = "idle"
    /\ xSite = NoSite
    /\ xResult = ExtractionResult(FALSE)
    /\ xLocals = NoLocals
    /\ xLog = NoLog
    /\ plPc = "idle"
    /\ plFormats = <<>>
    /\ plData = <<>>
    /\ plTrace = <<>>
    /\ plFirst = <<>>
    /\ plResult = PipelineResult(0)
    /\ scraping_request = [r \in Requests |-> NoRequest]
    /\ domain_rate_limiters = [d \in Domains |-> NoLimiter]
    /\ request_history = [d \in Domains |-> <<>>]
    /\ arLog = NoRateLog

GenNext ==
    \/ GenerateStart
    \/ LoopStep
    \/ \E p \in Backends, met \in Transient \cup {"status_200", "status_400", "inference"},
          content \in Contents : GenAttempt(p, met, content)
    \/ GenerateReturn

\* The strategy generator on its own.
Next == GenNext \/ Tick

Spec == Init /\ [][Next]_vars

\* The stand-alone circuit breaker.
NextCB ==
    \/ \E outcome \in FuncOutcomes, d \in 0..MaxDuration : Call(outcome, d)
    \/ Tick

SpecCB == Init /\ [][NextCB]_vars

\* The rate limiter with concurrent callers.
NextRL ==
    \/ \E c \in Callers : AcquireBegin(c)
    \/ \E c \in Callers : AcquireResume(c)
    \/ Tick

SpecRL == Init /\ [][NextRL]_vars

\* Under Spec no breaker of the generator ever records a failure: GuardedCall
\* is the only use LoopStep makes of a breaker, and it ends in _on_success.
GenBreakersStayClosed ==
    \A p \in providers :
        circuit_breakers[p].state = "CLOSED" /\ circuit_breakers[p].failure_count = 0

\* The strategy generator, its breakers also driven through CircuitBreaker.call
\* by callers that hand it a plain function, which is how a breaker of the
\* generator comes to be OPEN.
NextLib ==
    \/ GenNext
    \/ \E p \in Backends, outcome \in FuncOutcomes : BreakerCall(p, outcome)
    \/ Tick

InitLib == Init /\ Cardinality(providers) <= MaxLibProviders

SpecLib == InitLib /\ [][NextLib]_vars


\* The strategy generator with its steps scheduled fairly: the loop body runs
\* on, and an awaited request ends (every request carries a 60 s timeout).
SpecFair ==
    /\ Init
    /\ [][Next]_vars
    /\ WF_vars(LoopStep)
    /\ WF_vars(\E p \in Backends, met \in Transient \cup {"status_200", "status_400", "inference"},
                  content \in Contents : GenAttempt(p, met, content))

\* The browser manager used by concurrent tasks, each of which gets an
\* instance and later releases it
InitScraper == Init /\ \A p \in Backends : is_available[p]

NextBM ==
    \/ \E t \in Tasks, force_new \in BOOLEAN : GetBrowserInstance(t, force_new)
    \/ \E t \in Tasks : CleanupOldStep(t)
    \/ \E t \in Tasks, ok \in BOOLEAN : CreateNewInstanceDone(t, ok)
    \/ \E t \in Tasks : WaitStep(t)
    \/ \E t \in Tasks : CleanupLruStep(t)
    \/ \E t \in Tasks : ReleaseInstance(t)
    \/ \E t \in Tasks : ReleaseCleanupStep(t)
    \/ Tick

SpecBM == InitScraper /\ [][NextBM]_vars

\* The session manager under any sequence of create, save, rotate and
\* cleanup calls; the pages saved hold an httpOnly cookie followed by a
\* second cookie of either kind
CookiePages ==
    {[cookies |-> c, local_storage |-> <<>>, session_storage |-> <<>>, url |-> "site/"] :
        c \in {l \in CookieLists : Len(l) = 2 /\ l[1].httpOnly}}

NextSM ==
    \/ \E sid \in {s \in SessionIds : Held(sessions, s)} \cup {None} :
          CreateSession("site/", sid)
    \/ \E sid \in SessionIds, page \in CookiePages : SaveSessionState(sid, page)
    \/ \E sid \in SessionIds : RotateSession(sid, "site/")
    \/ \E sid \in SessionIds : CleanupSession(sid)
    \/ Tick

SpecSM == InitScraper /\ [][NextSM]_vars

\* One session, saved from any page and restored into a fresh context and page
SavedPages ==
    {[cookies |-> c, local_storage |-> l, session_storage |-> s, url |-> u] :
        c \in {k \in CookieLists : Len(k) # 2},
        l \in StorageDicts, s \in StorageDicts, u \in Urls}

NextRestore ==
    \/ \E url \in Urls : sessions = <<>> /\ CreateSession(url, None)
    \/ \E sid \in SessionIds, page \in SavedPages : SaveSessionState(sid, page)
    \/ \E sid \in SessionIds : RestoreSessionState(sid)
    \/ Tick

SpecRestore == InitScraper /\ [][NextRestore]_vars

\* Tasks that run scrape_site on one DynamicScraper, within one clock unit:
\* instances retire by their request count; the paths that age opens are the
\* same ones, and SpecBM covers them with the clock running
NextScrape ==
    \/ \E t \in Tasks : ScrapeStart(t)
    \/ \E t \in Tasks, outcome \in StrategyOutcomes : StrategyDone(t, outcome)
    \/ \E t \in Tasks : AcquireStep(t)
    \/ \E t \in Tasks, outcome \in WorkOutcomes : ScrapeWork(t, outcome)
    \/ \E t \in Tasks, recovered \in BOOLEAN : RecoveryDone(t, recovered)
    \/ \E t \in Tasks : ScrapeCancel(t)
    \/ \E t \in Tasks : ReleaseDone(t)

SpecScrape == InitScraper /\ [][NextScrape]_vars

\* The engine with concurrent requests and cancel_request calls
NextEngine ==
    \/ \E r \in Requests : ProcessRequest(r)
    \/ \E r \in Requests, n \in (0..MaxUrls) \cup {None} : PromptDone(r, n)
    \/ \E r \in Requests, valid \in BOOLEAN : ValidateDone(r, valid)
    \/ \E r \in Requests, ok \in BOOLEAN : ReconDone(r, ok)
    \/ \E r \in Requests, success \in BOOLEAN : EngineStrategyDone(r, success)
    \/ \E r \in Requests : ScraperEntered(r)
    \/ \E r \in Requests : CancelRequest(r)

SpecEngine == InitScraper /\ [][NextEngine]_vars

\* One ExtractionResult under any sequence of add_error calls
NextErrors == \E error \in ErrorMsgs : AddError(error)

SpecErrors == InitScraper /\ [][NextErrors]_vars

\* One caller's scrape_site calls, for every site kind and every answer of
\* the browser, the site and the LLM hub
NextExtract ==
    \/ \E filters \in BOOLEAN, pagination \in PaginationTypes \cup {NoPagination} :
          ScrapeSite(filters, pagination)
    \/ \E outcome \in StrategyOutcomes : XStrategy(outcome)
    \/ \E outcome \in {"ok", "session_raises", "browser_raises", "rate_raises"} :
          XSetup(outcome)
    \/ \E outcome \in {"ok", "raises"}, content \in PageContents, cleared \in BOOLEAN :
          XNavigate(outcome, content, cleared)
    \/ \E has_sequence \in BOOLEAN : XFilters(has_sequence)
    \/ \E n \in 0..MaxRowsPerPage : XExtractSingle(n)
    \/ \E n \in 0..MaxRowsPerPage : XExtractPage(n)
    \/ \E element \in BOOLEAN, raises \in BOOLEAN, after \in {"ok", "raises"} :
          XNextPage(element, raises, after)
    \/ \E outcome \in {"ok", "failed", "raises"} : XQuality(outcome)
    \/ \E outcome \in RecoveryOutcomes, n \in 0..MaxRowsPerPage : XRecovery(outcome, n)
    \/ \E ok \in BOOLEAN : XFinally(ok)

SpecExtract == InitScraper /\ [][NextExtract]_vars

\* The pipeline on rows of every kind the model knows: clean and dirty
\* text, prices, URLs, the same content in another key order or with other
\* metadata, an empty value, a key that is no str, a timestamp that is no
\* number; and a second run on the output of the first
RowA == <<Field("title", Str(<<"a">>))>>
RowB == <<Field("title", Str(<<"a">>)), Field("price", Str(<<"$", "1">>))>>
RowB2 == <<Field("price", Str(<<"$", "1">>)), Field("title", Str(<<"a">>))>>
RowBm == Append(RowB, Field("_extracted_at", Number(0)))
RowC == <<Field("title", Str(<<" ", "a">>))>>
RowD == <<Field("title", Str(<<"a">>)), Field("url", Str(<<"x.com">>))>>
RowE == <<Field("title", Str(<<>>))>>
RowK == <<Field("<7>", Str(<<"a">>))>>
RowT == <<Field("title", Str(<<"a">>)), Field("_extracted_at", Str(<<"1">>))>>
InputRows == {RowA, RowB, RowB2, RowBm, RowC, RowD, RowE, RowK, RowT}
InputData == UNION {[1..n -> InputRows] : n \in 0..MaxRows}
FormatLists == {<<>>, <<"csv">>, <<"bogus">>, <<"csv", "json">>, <<"csv", "bogus">>}

NextPipeline ==
    \/ \E data \in InputData, export_formats \in FormatLists :
          ProcessAndExport(data, export_formats)
    \/ Rerun
    \/ \E stage \in {"cleaning", "validation", "enrichment"} : ProcessStage(stage)
    \/ \E ok \in BOOLEAN : StoreData(ok)
    \/ \E outcomes \in [DOMAIN plFormats -> ExportOutcomes] : ExportData(outcomes)

SpecPipeline == InitScraper /\ [][NextPipeline]_vars

\* The profile of the requests built by process_request.
NextProfile ==
    \E r \in Requests, intent \in Intents : CreateScrapingRequest(r, intent)

SpecProfile == InitScraper /\ [][NextProfile]_vars

\* The rate limiting of the runs of one scraper, one after the other.
NextPacing ==
    \/ \E domain \in Domains, scraping_profile \in Profiles :
          RateLimitSite(domain, scraping_profile)
    \/ \E domain \in Domains : RateLimitPage(domain)
    \/ Tick

SpecPacing == InitScraper /\ [][NextPacing]_vars

(***************************************************************************)
(* Properties                                                              *)
(***************************************************************************)
TriedProviders == {tried[i].provider : i \in DOMAIN tried}

Rank(p) ==
    CASE p = "tinyllama" -> 1
      [] p = "openai" -> 2
      [] p = "claude" -> 3
      [] p = "huggingface" -> 4

\* C1: once failure_threshold tracked failures have come in a row the breaker
\* is OPEN, and a call made on an OPEN breaker less than recovery_timeout
\* after its last recorded failure ends with the 'open' error and does not
\* run the wrapped function.
C1_OpenFailsFast ==
    /\ cbLog.consecutive >= cb.failure_threshold => cb.state = "OPEN"
    /\ (cbLog.calls > 0 /\ cbLog.stateBefore = "OPEN"
           /\ cbLog.sinceFailure < cb.recovery_timeout)
          => (cbLog.last = "open_error" /\ ~cbLog.invoked)

C1_Witness ==
    /\ cbLog.consecutive >= cb.failure_threshold
    /\ cbLog.stateBefore = "OPEN"
    /\ cbLog.sinceFailure >= 0
    /\ cbLog.sinceFailure < cb.recovery_timeout
    /\ cbLog.last = "open_error"

\* C2: when a backend's generate_response ends in an error, that backend's
\* breaker records one failure: failure_count goes up by one and the breaker
\* is OPEN once the count reaches failure_threshold.
C2_ErrorRecordsFailure ==
    [][\A p \in Backends :
          (p \in inflight /\ p \notin inflight' /\ ~tried'[Len(tried')].success)
             => /\ circuit_breakers'[p].failure_count
                      = circuit_breakers[p].failure_count + 1
                /\ (circuit_breakers'[p].failure_count >= GenFailureThreshold
                       => circuit_breakers'[p].state = "OPEN")]_vars

C4_OpenBackendSkipped ==
    /\ \A i \in DOMAIN turns :
          /\ turns[i].provider = provider_priority[i]
          /\ (turns[i].state = "OPEN"
                 /\ turns[i].since < circuit_breakers[turns[i].provider].recovery_timeout)
                => /\ ~turns[i].invoked
                   /\ turns[i].provider \notin TriedProviders \cup inflight
                   /\ (i < Len(turns) \/ idx = i + 1)
    /\ (pc = "done" /\ result.success)
          => /\ tried # <<>>
             /\ result.provider_used = tried[Len(tried)].provider
             /\ turns[Len(turns)].provider = result.provider_used

C4_Witness ==
    /\ pc = "done"
    /\ result.success
    /\ \E i \in DOMAIN turns :
          /\ i < Len(turns)
          /\ turns[i].state = "OPEN"
          /\ turns[i].since >= 0
          /\ turns[i].since < circuit_breakers[turns[i].provider].recovery_timeout
          /\ ~turns[i].invoked
          /\ turns[i + 1].provider = result.provider_used

C6_TransientRetried ==
    \A i \in DOMAIN tried :
        (Decorated(tried[i].provider) /\ tried[i].transient)
           => tried[i].attempts = max_attempts

\* C7: the call ends, and it ends with success = false (a diagnostic reason,
\* no selectors) exactly when no backend it tried gave a successful response
\* holding all of selectors, extraction_logic and confidence_score.
C7_Result ==
    pc = "done" =>
        /\ ~result.success
              <=> ~(\E i \in DOMAIN tried : tried[i].success /\ tried[i].complete)
        /\ ~result.success => (result.reasoning # "" /\ result.selectors = <<>>)

C8_StrategyWellFormed ==
    (pc = "done" /\ result.success)
       => /\ result.selectors # <<>>
          /\ result.confidence_score >= 0
          /\ result.confidence_score <= 100

\* C9: a backend that is not available at construction is never invoked.
C9_UnavailableNeverInvoked ==
    \A p \in Backends :
        ~is_available[p] => (p \notin inflight /\ p \notin TriedProviders)

C9_Witness ==
    /\ pc = "done"
    /\ \E p \in Backends : ~is_available[p]
    /\ Len(tried) >= 2

\* C10: any two completions of acquire() on one limiter are at least
\* min_interval apart.
C10_MinimumSpacing ==
    \A i, j \in DOMAIN rlDone :
        i < j => rlDone[j] - rlDone[i] >= rl.min_interval

(***************************************************************************)
(* Browser manager: properties                                             *)
(***************************************************************************)
\* C11: in every reachable state the pool holds at most max_instances
\* instances, whatever the interleaving of get_browser_instance and
\* release_instance callers, including callers that wait out the whole wait
\* loop while every instance stays busy.
C11_PoolBounded == Len(browser_pool) <= MaxInstances

\* C12: an instance that get_browser_instance returned has in_use = true
\* until its holder calls release_instance, and no two callers hold the same
\* instance.
C12_ExclusiveHold ==
    \A t \in Tasks :
        bHeld[t] # None =>
            /\ instance[bHeld[t]].in_use
            /\ \A u \in Tasks \ {t} : bHeld[u] # bHeld[t]

\* a task holds an instance it was handed for reuse while another task, which
\* asked for one after it, is in the wait loop
C12_Witness ==
    \E t \in Tasks : \E u \in Tasks \ {t} :
        /\ bHeld[t] # None
        /\ bLog[t].kind = "reused"
        /\ instance[bHeld[t]].requests_count > 0
        /\ bPc[u] = "sleep"

\* C13: a call that met a full pool and waited the whole wait loop out
\* returns a new instance only after an idle least-recently-used instance was
\* evicted; when every instance was still busy it does not return an instance.
C13_CreateOnlyAfterEviction ==
    \A t \in Tasks :
        (bLog[t].waited /\ bLog[t].kind = "created") => bLog[t].evicted

(***************************************************************************)
(* Session manager: properties                                             *)
(***************************************************************************)
\* C14: after every create_session, for any sequence of create_session
\* calls, the manager holds at most max_sessions sessions.
C14_SessionsBounded == Len(sessions) <= MaxSessions

\* C15: after rotate_session(old_id, url) the new session contains no cookie
\* of the old session that has httpOnly = true.
C15_NoHttpOnlyTransferred ==
    rotated.done =>
        \A i \in 1..Len(rotated.new.cookies) :
            ~ /\ rotated.new.cookies[i].httpOnly
              /\ \E j \in 1..Len(rotated.old.cookies) :
                    rotated.old.cookies[j] = rotated.new.cookies[i]

\* a rotation of a session that holds an httpOnly cookie and another one,
\* which was transferred
C15_Witness ==
    /\ rotated.done
    /\ \E j \in 1..Len(rotated.old.cookies) : rotated.old.cookies[j].httpOnly
    /\ Len(rotated.new.cookies) > 0

\* C16: for any session old_id the manager holds, whatever its age or idle
\* time, rotate_session(old_id, url) returns a new session whose cookie list
\* is exactly the old session's cookies with httpOnly false; afterwards the
\* old session is no longer held and the new one is.
C16_RotateTransfers ==
    (rotated.done /\ rotated.old # NoSession) =>
        /\ rotated.new.cookies = SelectSeq(rotated.old.cookies, LAMBDA c : ~c.httpOnly)
        /\ ~rotated.old_held
        /\ rotated.new_held

\* C17: a session saved with save_session_state and then restored into a
\* fresh context and page: the context's cookies, the local storage and the
\* session storage equal the saved ones and the page is on the saved current
\* page URL.
C17_RoundTrip ==
    (restored.done /\ restored.session.request_count > 0) =>
        /\ restored.page.cookies = restored.session.cookies
        /\ restored.page.local_storage = restored.session.local_storage
        /\ restored.page.session_storage = restored.session.session_storage
        /\ restored.page.url = restored.session.current_page

(***************************************************************************)
(* scrape_site and the engine: properties                                  *)
(***************************************************************************)
\* C18: when scrape_site returns, the session it created is still held by
\* the session manager: ending a scrape removes no session.
C18_SessionKept ==
    [][\A t \in Tasks :
          ( /\ sPc[t] # "returned" /\ sPc'[t] = "returned"
            /\ sSession[t] # None
            /\ Held(sessions, sSession[t]) )
          => Held(sessions', sSession[t])]_vars

\* C19: on every exit path of scrape_site after a browser instance was
\* acquired (success, failed extraction, raised exception, cancellation) the
\* instance is released: it has in_use = false or is no longer in the pool.
C19_InstanceReleased ==
    [][\A t \in Tasks :
          ( /\ sPc[t] # "returned" /\ sPc'[t] = "returned"
            /\ sExit'[t].instance # None )
          => \/ ~InPool(sExit'[t].instance, browser_pool')
             \/ ~instance'[sExit'[t].instance].in_use]_vars

\* a scrape_site call that was cancelled while it held an instance has ended
C19_Witness ==
    \E t \in Tasks :
        /\ sPc[t] = "returned"
        /\ sExit[t].exit = "cancelled"
        /\ sExit[t].instance # None
        /\ InPool(sExit[t].instance, browser_pool)

\* C20: after cancel_request(id) on an id in active_requests the run does no
\* further work and its result is distinguished as cancelled.
C20_CancelStopsRun ==
    \A r \in Requests :
        eCancelled[r] =>
            /\ ~eAfterCancel[r]
            /\ eResponse[r].returned => eResponse[r].error = "cancelled"

(***************************************************************************)
(* ExtractionResult and scrape_site: properties                            *)
(***************************************************************************)
\* C21: every ExtractionResult returned by scrape_site, on every path (single
\* page, paginated, exception, recovery), has success true if and only if
\* its data list holds at least one row.
C21_SuccessIffRows ==
    xPc = "done" => (xResult.success <=> Len(xResult.data) > 0)

\* a paginated scrape whose loop raised after a page with rows was returned
C21_Witness ==
    /\ xPc = "done"
    /\ xSite.pagination # NoPagination
    /\ xResult.success
    /\ xResult.errors = <<"Pagination extraction failed">>

\* C22: pages_processed of a paginated extraction equals the number of pages
\* on which extraction was attempted, pages with zero rows included.
C22_PagesCountAttempts ==
    (xPc = "done" /\ xSite.pagination # NoPagination) =>
        xResult.pages_processed = xLog.attempted

Last(s, n) == SubSeq(s, Len(s) - n + 1, Len(s))

\* C23: after any sequence of add_error calls, errors holds at most 10
\* entries, and they are the most recently added ones in the order added.
C23_ErrorsCapped ==
    /\ Len(er.errors) <= ErrorLimit
    /\ er.errors = Last(erAdded, IF Len(erAdded) < ErrorLimit THEN Len(erAdded) ELSE ErrorLimit)

C23_Witness == Len(erAdded) > ErrorLimit /\ er.errors[1] # erAdded[1]

\* C24: when extraction of a page yields zero rows, the LLM is called once
\* for recovery for that page and the page is retried at most once with the
\* updated selectors; when the retry succeeds the result holds one error
\* entry.
C24_RecoveryOncePerEmptyPage ==
    (xPc = "done" /\ xLog.empty_pages > 0) =>
        /\ xLog.resolve_calls = xLog.empty_pages
        /\ xLog.retries <= xLog.resolve_calls
        /\ (xLog.retries > 0 /\ xResult.success) => Len(xResult.errors) = 1

\* C25: if CAPTCHA or challenge markers are detected after navigation and
\* are still there after the back-off, the scrape fails with an error,
\* applies no filter and extracts no row.
C25_CaptchaFailsScrape ==
    xLog.captcha_persists =>
        /\ ~xLog.filters_applied
        /\ xLog.attempted = 0
        /\ xResult.data = <<>>
        /\ xPc = "done" => (~xResult.success /\ xResult.errors # <<>>)

(***************************************************************************)
(* Pipeline and processors: properties                                     *)
(***************************************************************************)
SomeExportSucceeded ==
    \E i \in DOMAIN plResult.export_results : plResult.export_results[i].success

\* C26: process_and_export returns success = true if and only if the number
\* of output rows is greater than 0 and at least one exporter succeeded, for
\* every list of requested formats, unknown format names included.
C26_SuccessIffRowsAndExport ==
    plPc = "done" =>
        (plResult.success <=> (plResult.total_output_records > 0 /\ SomeExportSucceeded))

\* C27: if there are output rows and at least one requested exporter
\* succeeds, process_and_export returns success = true even when another
\* requested exporter fails, and every failed exporter is in export_results
\* with success = false and an error.
C27_OneFailureTolerated ==
    (plPc = "done" /\ plResult.total_output_records > 0 /\ SomeExportSucceeded) =>
        /\ plResult.success
        /\ Len(plResult.export_results) =
               Len(SelectSeq(plFormats, LAMBDA f : f \in Exporters))
        /\ \A i \in DOMAIN plResult.export_results :
              ~plResult.export_results[i].success => plResult.export_results[i].error # "None"

Raising(stage, data) == {i \in DOMAIN data : ItemRaises(stage, data[i])}

\* C28: each stage returns one output row per input row in input order; a
\* row whose processing raises is passed through unchanged and counted in
\* failed_items; so for non-empty input total_output_records equals
\* total_input_records.
C28_RowPerRow ==
    /\ \A e \in DOMAIN plTrace :
          LET run == plTrace[e]
          IN  /\ Len(run.out) = Len(run.in)
              /\ \A i \in DOMAIN run.in :
                    IF i \in Raising(run.stage, run.in)
                    THEN run.out[i] = run.in[i]
                    ELSE run.out[i] = StageItem(run.stage, run.in[i])
              /\ run.stats.failed_items >= Cardinality(Raising(run.stage, run.in))
    /\ (plPc = "done" /\ plResult.total_input_records > 0) =>
           plResult.total_output_records = plResult.total_input_records

\* a finished run whose second row raised in every stage
C28_Witness ==
    /\ plPc = "done"
    /\ Len(plTrace) = 3
    /\ \A e \in DOMAIN plTrace : Len(plTrace[e].in) = 2 /\ Raising(plTrace[e].stage, plTrace[e].in) = {1}

Enriched(run) == DOMAIN run.in \ Raising(run.stage, run.in)

\* C29: the content hash of a row depends only on its non-metadata fields:
\* two rows with equal non-metadata fields get equal hashes, whatever their
\* metadata and their key order.
C29_HashOfContent ==
    \A e \in DOMAIN plTrace :
        plTrace[e].stage = "enrichment" =>
            \A i, j \in Enriched(plTrace[e]) :
                SameContent(plTrace[e].in[i], plTrace[e].in[j]) =>
                    Get(plTrace[e].out[i], "_content_hash") = Get(plTrace[e].out[j], "_content_hash")

\* two rows with the same content in different key order, and other metadata
C29_Witness ==
    \E e \in DOMAIN plTrace :
        /\ plTrace[e].stage = "enrichment"
        /\ \E i, j \in Enriched(plTrace[e]) :
              /\ SameContent(plTrace[e].in[i], plTrace[e].in[j])
              /\ ContentFields(plTrace[e].in[i]) # ContentFields(plTrace[e].in[j])
              /\ Has(plTrace[e].in[i], "_extracted_at")
              /\ ~Has(plTrace[e].in[j], "_extracted_at")

\* C30: running cleaner, validator and enricher again on their own output
\* leaves every non-metadata field of every row unchanged, adds none, and
\* regenerates a _content_hash equal to the one of the first run.
C30_RerunIsNoOp ==
    (plFirst # <<>> /\ Len(plTrace) = Len(Stages)) =>
        \A i \in DOMAIN plFirst :
            /\ SameContent(plData[i], plFirst[i])
            /\ Has(plFirst[i], "_content_hash") =>
                  Get(plData[i], "_content_hash") = Get(plFirst[i], "_content_hash")

\* C31: the scraping profile of a request is a function of its intent's
\* detection level and volume estimate only: two requests whose intents
\* agree on these two values have the same profile, whatever the urgency.
C31_ProfileFromDetectionAndVolume ==
    \A r1, r2 \in Requests :
        (/\ scraping_request[r1] # NoRequest
         /\ scraping_request[r2] # NoRequest
         /\ scraping_request[r1].intent.detection_level
               = scraping_request[r2].intent.detection_level
         /\ scraping_request[r1].intent.volume_estimate
               = scraping_request[r2].intent.volume_estimate)
           => scraping_request[r1].scraping_profile
                 = scraping_request[r2].scraping_profile

\* C32: a call on an OPEN breaker runs the wrapped function (a trial) exactly
\* when the time since the last recorded failure is at least
\* recovery_timeout, the instant of equality included; a trial that succeeds
\* leaves the breaker CLOSED with failure_count 0, and a trial that fails
\* with a tracked exception leaves it OPEN with last_failure_time the time of
\* that failure.
C32_TrialAtTimeout ==
    (cbLog.calls > 0 /\ cbLog.stateBefore = "OPEN")
       => /\ cbLog.invoked <=> cbLog.sinceFailure >= cb.recovery_timeout
          /\ cbLog.last = "ok" => (cb.state = "CLOSED" /\ cb.failure_count = 0)
          /\ cbLog.last = "tracked" => (cb.state = "OPEN" /\ cb.last_failure_time = now)

\* C33: a call whose wrapped function raises an exception that is not of the
\* tracked type leaves the breaker as it was: state, failure_count and
\* last_failure_time are the same after the call as before it.
C33_UntrackedLeavesBreaker ==
    [][(cbLog'.calls = cbLog.calls + 1 /\ cbLog'.last = "untracked") => cb' = cb]_vars

\* the instance has reached one of the limits at which release_instance
\* retires it
Retired(i, t) ==
    \/ i.requests_count >= MaxRequestsPerInstance
    \/ t - i.created_at >= MaxInstanceAge

\* C34: an instance whose requests_count has reached
\* max_requests_per_instance or whose age has reached max_instance_age is
\* out of the pool when the release_instance call that released it returns,
\* and get_browser_instance hands out no such instance for reuse.
C34_RetiredOnRelease ==
    [][\A t \in Tasks :
          /\ (bPc[t] = "holding" /\ bPc'[t] = "idle")
                => ~(InPool(bHeld[t], browser_pool')
                        /\ Retired(instance'[bHeld[t]], now))
          /\ (bPc[t] = "release_cleanup" /\ bPc'[t] = "idle")
                => ~InPool(bVictim[t], browser_pool')
          /\ (bPc[t] # "holding" /\ bPc'[t] = "holding" /\ bLog'[t].kind = "reused")
                => ~Retired(instance[bHeld'[t]], now)]_vars

\* a release is retiring an instance that has served max_requests_per_instance
\* requests, the later ones after it was handed out for reuse
C34_Witness ==
    \E t \in Tasks :
        /\ bPc[t] = "release_cleanup"
        /\ bLog[t].kind = "reused"
        /\ InPool(bVictim[t], browser_pool)
        /\ instance[bVictim[t]].requests_count >= MaxRequestsPerInstance

\* C35: an instance that a caller holds is in the pool and no eviction, of
\* stale instances or of the least recently used one, is closing it.
C35_HeldNotEvicted ==
    \A t \in Tasks :
        bHeld[t] # None =>
            /\ InPool(bHeld[t], browser_pool)
            /\ \A u \in Tasks :
                  bPc[u] \in {"old_cleanup", "lru_cleanup"} => bVictim[u] # bHeld[t]

\* a caller holds an instance while another call evicts a different one
C35_Witness ==
    \E t \in Tasks : \E u \in Tasks \ {t} :
        /\ bHeld[t] # None
        /\ instance[bHeld[t]].in_use
        /\ bPc[u] \in {"old_cleanup", "lru_cleanup"}
        /\ InPool(bVictim[u], browser_pool)
        /\ bVictim[u] # bHeld[t]

\* the rows that the extraction of page p of the running loop added
RowsOn(p) ==
    Cardinality({i \in DOMAIN xLocals.page_result.data :
                    xLocals.page_result.data[i].page = p})

\* C36: with infinite-scroll pagination the loop stops at the first scroll
\* after which no new rows appeared: no page is extracted after a page that
\* was reached by a scroll and yielded no row.
C36_StopsOnZeroDelta ==
    xSite.pagination = "infinite_scroll"
       => \A p \in 2..(xLog.attempted - 1) : RowsOn(p) > 0

C38_ProfileIntervalEnforced ==
    arLog.domain # "none" =>
        LET h == request_history[arLog.domain]
        IN  /\ domain_rate_limiters[arLog.domain].min_interval
                  = ProfileRateLimit(arLog.profile)
            /\ Len(h) >= 2 => h[Len(h)] - h[Len(h) - 1] >= ProfileRateLimit(arLog.profile)

\* C39: a request id is in active_requests only while its process_request
\* call is running, and on none of the paths by which the call returns is it
\* still there afterwards; cancel_request(id) returns True exactly when the
\* id was in active_requests, and removes it; get_request_status(id) returns
\* nothing from then on.
C39_ActiveOnlyWhileRunning ==
    [][\A r \in Requests :
          /\ r \in active_requests' => ePc'[r] \notin {"idle", "done"}
          /\ eResponse'[r].returned => r \notin active_requests'
          /\ eCancelled'[r] => get_request_status(active_requests', r) = NoStatus
          /\ (eCancelled'[r] /\ ~eCancelled[r])
                => (r \in active_requests /\ r \notin active_requests')
          /\ (r \in active_requests /\ r \notin active_requests' /\ ePc'[r] = ePc[r])
                => eCancelled'[r]]_vars

\* a request was cancelled and its run has returned since, while the other
\* request is being processed
C39_Witness ==
    \E r \in Requests : \E q \in Requests \ {r} :
        /\ eCancelled[r]
        /\ eResponse[r].returned
        /\ q \in active_requests
        /\ get_request_status(active_requests, q).status = "processing"

====
